---- MODULE Spec2Model ----
(***************************************************************************)
(* Template builder: the schema-driven record validator, the record-       *)
(* creation handler and the analytics runtime, as state machines.          *)
(*                                                                         *)
(* JavaScript values are tagged records [k, v].  Strings that the code     *)
(* parses are sequences of one-character strings, so that Number(), the    *)
(* date pattern, trim() and String() are computed character by character.  *)
(* Numbers are exact rationals n/d (d > 0, reduced) together with NaN,     *)
(* +Infinity and -Infinity; rounding of IEEE doubles is not modelled.      *)
(* Object keys and field ids are only compared, so they are plain strings. *)
(***************************************************************************)
EXTENDS Integers, Sequences, FiniteSets, TLC

VARIABLES
    schema,       \* validator run: spec.schema.fields
    rawData,      \* validator run: the rawData argument
    isoLenient,   \* validator run: whether the engine's ISO parser rolls a day past the month's end over
    vphase,       \* validator run: "input", "validated", "revalidated"
    result,       \* validator run: value returned by validateAndNormalizeRecordData
    firstCall,    \* validator run: the argument and the result of the first call
    templates,    \* storage: Template rows in creation order
    collections,  \* storage: Collection rows in creation order
    records,      \* storage: Record rows in creation order
    response,     \* server: the response to the last request
    request,      \* server: the last request handled, its route and body
    mRecords,     \* analytics run: the records argument
    metric,       \* analytics run: the metric argument
    mphase,       \* analytics run: "input", "computed"
    mResult,      \* analytics run: value returned by computeMetric
    tRecords,     \* time-range run: the records argument
    timeFieldId,  \* time-range run: the timeFieldId argument ("" when undefined)
    tRange,       \* time-range run: the range argument
    now,          \* time-range run: the now argument, an instant
    tzOffset,     \* time-range run: local time minus UTC, in hours
    tphase,       \* time-range run: "input", "applied"
    tResult,      \* time-range run: value returned by applyTimeRange
    fRecord,      \* filter run: the record argument
    fFilter,      \* filter run: the filter argument
    fphase,       \* filter run: "input", "matched"
    fMatch,       \* filter run: value returned by matchesFilter
    gRecords,     \* grouping run: the records argument
    groupBy,      \* grouping run: the groupBy argument
    gMetric,      \* grouping run: the metric argument
    gphase,       \* grouping run: "input", "grouped", "computed"
    gGroups,      \* grouping run: the Map returned by groupByField, in insertion order
    gRows,        \* grouping run: the rows returned by computeGroupedMetric
    patches,      \* server: PATCH requests between their read and their update
    saving,       \* forms: the saving state of each create form
    rendered,     \* forms: the saving value the handlers of the last render close over
    calls,        \* forms: the calls of each form's handler that are past their guard
    created,      \* forms: the rows each form's requests have created
    formError,    \* forms: the error state of each form
    loading,      \* collection page: the loading state
    pageError,    \* collection page: the error state
    pageCollection, \* collection page: the collection state, "" for null
    loads,        \* collection page: the calls of loadCollection so far
    dString,      \* date run: the string given to both date readers
    dParsed,      \* date run: value returned by parseDate
    dValid,       \* date run: value returned by isValidISODateYYYYMMDD
    dphase        \* date run: "input", "read"

vars == <<schema, rawData, isoLenient, vphase, result, firstCall,
          templates, collections, records, response, request,
          mRecords, metric, mphase, mResult,
          tRecords, timeFieldId, tRange, now, tzOffset, tphase, tResult,
          fRecord, fFilter, fphase, fMatch,
          gRecords, groupBy, gMetric, gphase, gGroups, gRows,
          patches, saving, rendered, calls, created, formError,
          loading, pageError, pageCollection, loads,
          dString, dParsed, dValid, dphase>>

validatorVars == <<schema, rawData, isoLenient, vphase, result, firstCall>>
serverVars == <<templates, collections, records, response, request>>
metricVars == <<mRecords, metric, mphase, mResult>>
rangeVars == <<tRecords, timeFieldId, tRange, now, tzOffset, tphase, tResult>>
filterVars == <<fRecord, fFilter, fphase, fMatch>>
groupVars == <<gRecords, groupBy, gMetric, gphase, gGroups, gRows>>
analyticsVars == <<metricVars, rangeVars, filterVars, groupVars>>
formVars == <<saving, rendered, calls, created, formError>>
pageVars == <<loading, pageError, pageCollection, loads>>
dateVars == <<dString, dParsed, dValid, dphase>>
otherVars == <<patches, formVars, pageVars, dateVars>>

-----------------------------------------------------------------------------
(* Numbers *)

RECURSIVE Gcd(_, _)
Gcd(a, b) == IF b = 0 THEN a ELSE Gcd(b, a % b)

Abs(n) == IF n < 0 THEN -n ELSE n

Rat(n, d) ==
    LET g == Gcd(Abs(n), d)
    IN  [c |-> "fin", n |-> n \div g, d |-> d \div g]

NaN == [c |-> "nan", n |-> 0, d |-> 1]
PosInf == [c |-> "pinf", n |-> 0, d |-> 1]
NegInf == [c |-> "ninf", n |-> 0, d |-> 1]

IsNaN(x) == x.c = "nan"
IsFiniteNum(x) == x.c = "fin"

NumNeg(x) ==
    CASE x.c = "fin" -> Rat(-x.n, x.d)
      [] x.c = "pinf" -> NegInf
      [] x.c = "ninf" -> PosInf
      [] OTHER -> NaN

\* a < b on doubles: false when either side is NaN
NumLt(a, b) ==
    /\ ~IsNaN(a)
    /\ ~IsNaN(b)
    /\ \/ a.c = "ninf" /\ b.c # "ninf"
       \/ b.c = "pinf" /\ a.c # "pinf"
       \/ a.c = "fin" /\ b.c = "fin" /\ a.n * b.d < b.n * a.d

NumGt(a, b) == NumLt(b, a)
NumLe(a, b) == ~IsNaN(a) /\ ~IsNaN(b) /\ ~NumLt(b, a)
NumGe(a, b) == NumLe(b, a)

\* a + b on doubles
NumAdd(a, b) ==
    CASE IsNaN(a) \/ IsNaN(b) -> NaN
      [] a.c = "pinf" /\ b.c = "ninf" -> NaN
      [] a.c = "ninf" /\ b.c = "pinf" -> NaN
      [] a.c = "pinf" \/ b.c = "pinf" -> PosInf
      [] a.c = "ninf" \/ b.c = "ninf" -> NegInf
      [] OTHER -> Rat(a.n * b.d + b.n * a.d, a.d * b.d)

\* a / k on doubles, k a positive integer
NumDivInt(a, k) == IF a.c = "fin" THEN Rat(a.n, a.d * k) ELSE a

-----------------------------------------------------------------------------
(* JavaScript values *)

Undefined == [k |-> "undefined", v |-> 0]
Null == [k |-> "null", v |-> 0]
Str(s) == [k |-> "string", v |-> s]
Num(x) == [k |-> "number", v |-> x]
Bool(b) == [k |-> "boolean", v |-> b]
Obj(bag) == [k |-> "object", v |-> bag]
Arr(elems) == [k |-> "array", v |-> elems]

Int2Num(i) == Num(Rat(i, 1))

\* typeof value
TypeOf(value) ==
    CASE value.k \in {"null", "object", "array"} -> "object"
      [] OTHER -> value.k

EmptyBag == [x \in {} |-> Undefined]

\* obj[key] for an own key, undefined otherwise
Get(bag, key) == IF key \in DOMAIN bag THEN bag[key] ELSE Undefined

\* obj[key] = value
Put(bag, key, value) ==
    [x \in DOMAIN bag \cup {key} |-> IF x = key THEN value ELSE bag[x]]

-----------------------------------------------------------------------------
(* Strings as character sequences *)

Digits == <<"0", "1", "2", "3", "4", "5", "6", "7", "8", "9">>

IsDigit(ch) == \E i \in 1..Len(Digits) : Digits[i] = ch
DigitVal(ch) == (CHOOSE i \in 1..Len(Digits) : Digits[i] = ch) - 1
DigitChar(n) == Digits[n + 1]

AllDigits(s) == \A i \in 1..Len(s) : IsDigit(s[i])

RECURSIVE ParseDigits(_)
ParseDigits(s) ==
    IF s = <<>> THEN 0
    ELSE ParseDigits(SubSeq(s, 1, Len(s) - 1)) * 10 + DigitVal(s[Len(s)])

RECURSIVE Pow10(_)
Pow10(k) == IF k = 0 THEN 1 ELSE 10 * Pow10(k - 1)

IsSpace(ch) == ch \in {" ", "\t", "\n"}

RECURSIVE TrimStart(_)
TrimStart(s) ==
    IF s # <<>> /\ IsSpace(Head(s)) THEN TrimStart(Tail(s)) ELSE s

RECURSIVE TrimEnd(_)
TrimEnd(s) ==
    IF s # <<>> /\ IsSpace(s[Len(s)]) THEN TrimEnd(SubSeq(s, 1, Len(s) - 1)) ELSE s

\* String.prototype.trim
Trim(s) == TrimEnd(TrimStart(s))

InfinityChars == <<"I", "n", "f", "i", "n", "i", "t", "y">>
TrueChars == <<"t", "r", "u", "e">>
FalseChars == <<"f", "a", "l", "s", "e">>

\* StrUnsignedDecimalLiteral: Infinity, digits[.digits], .digits
\* (exponents and 0x/0o/0b literals are outside the modelled strings)
UnsignedToNumber(s) ==
    IF s = InfinityChars THEN PosInf
    ELSE LET dots == {i \in 1..Len(s) : s[i] = "."}
         IN  IF dots = {}
             THEN IF Len(s) > 0 /\ AllDigits(s) THEN Rat(ParseDigits(s), 1) ELSE NaN
             ELSE IF Cardinality(dots) > 1 THEN NaN
             ELSE LET p == CHOOSE i \in dots : TRUE
                      ip == SubSeq(s, 1, p - 1)
                      fp == SubSeq(s, p + 1, Len(s))
                  IN  IF Len(ip) + Len(fp) = 0 \/ ~AllDigits(ip) \/ ~AllDigits(fp)
                      THEN NaN
                      ELSE Rat(ParseDigits(ip) * Pow10(Len(fp)) + ParseDigits(fp),
                               Pow10(Len(fp)))

ApplySign(negative, x) == IF negative THEN NumNeg(x) ELSE x

\* StrNumericLiteral with its optional sign; the empty string is 0
SignedToNumber(t) ==
    IF t = <<>> THEN Rat(0, 1)
    ELSE ApplySign(Head(t) = "-",
                   UnsignedToNumber(IF Head(t) \in {"+", "-"} THEN Tail(t) ELSE t))

\* Number(s) for a string s: StringToNumber
StringToNumber(s) == SignedToNumber(Trim(s))

-----------------------------------------------------------------------------
(* Date: the built-in behind new Date(iso) and getUTC*, on whole UTC days *)

\* MakeDay: days since 1970-01-01 of the civil date y-m-d
DaysFromCivil(y, m, d) ==
    LET yy == IF m <= 2 THEN y - 1 ELSE y
        era == yy \div 400
        yoe == yy - era * 400
        mp == IF m > 2 THEN m - 3 ELSE m + 9
        doy == (153 * mp + 2) \div 5 + d - 1
        doe == yoe * 365 + yoe \div 4 - yoe \div 100 + doy
    IN  era * 146097 + doe - 719468

\* YearFromTime, MonthFromTime, DateFromTime of a day number
CivilFromDays(z) ==
    LET zz == z + 719468
        era == zz \div 146097
        doe == zz - era * 146097
        yoe == (doe - doe \div 1460 + doe \div 36524 - doe \div 146096) \div 365
        doy == doe - (365 * yoe + yoe \div 4 - yoe \div 100)
        mp == (5 * doy + 2) \div 153
        d == doy - (153 * mp + 2) \div 5 + 1
        m == IF mp < 10 THEN mp + 3 ELSE mp - 9
        y == yoe + era * 400 + (IF m <= 2 THEN 1 ELSE 0)
    IN  [y |-> y, m |-> m, d |-> d]

InvalidDate == [valid |-> FALSE, day |-> 0]

\* new Date(value + "T00:00:00Z") for a value that matched the pattern:
\* month 01..12 and day 01..31 are required by the ISO parser; an engine
\* that is lenient about the month's length rolls the day over, a strict one
\* gives an invalid date
DateOfDay(day, m) ==
    IF isoLenient \/ CivilFromDays(day).m = m
    THEN [valid |-> TRUE, day |-> day]
    ELSE InvalidDate

NewDateUTC(y, m, d) ==
    IF m < 1 \/ m > 12 \/ d < 1 \/ d > 31 THEN InvalidDate
    ELSE DateOfDay(DaysFromCivil(y, m, 1) + (d - 1), m)

\* /^\d{4}-\d{2}-\d{2}$/.test(value)
MatchesYMD(s) ==
    /\ Len(s) = 10
    /\ s[5] = "-"
    /\ s[8] = "-"
    /\ \A i \in {1, 2, 3, 4, 6, 7, 9, 10} : IsDigit(s[i])

\* d.getUTCFullYear() === y && d.getUTCMonth() + 1 === m && d.getUTCDate() === day
SameCivil(c, y, m, day) == c.y = y /\ c.m = m /\ c.d = day

\* the date is valid and reads back as y, m, day
RoundTrips(dt, y, m, day) ==
    IF ~dt.valid THEN FALSE ELSE SameCivil(CivilFromDays(dt.day), y, m, day)

\* the two tests on the constructed date
DateChecks(y, m, day) == RoundTrips(NewDateUTC(y, m, day), y, m, day)

\* the same without the round-trip comparison
isValidISODateNoRoundTrip(value) ==
    IF ~MatchesYMD(value) THEN FALSE
    ELSE NewDateUTC(StringToNumber(SubSeq(value, 1, 4)).n,
                    StringToNumber(SubSeq(value, 6, 7)).n,
                    StringToNumber(SubSeq(value, 9, 10)).n).valid

isValidISODateYYYYMMDD(value) ==
    IF ~MatchesYMD(value) THEN FALSE
    ELSE DateChecks(StringToNumber(SubSeq(value, 1, 4)).n,
                    StringToNumber(SubSeq(value, 6, 7)).n,
                    StringToNumber(SubSeq(value, 9, 10)).n)

-----------------------------------------------------------------------------
(* The record validator *)

\* the same without the Array.isArray test
isPlainObjectArraysToo(value) ==
    TypeOf(value) = "object" /\ value # Null

isPlainObject(value) ==
    TypeOf(value) = "object" /\ value # Null /\ value.k # "array"

IndexKeys == <<"0", "1", "2">>

\* every key the modelled objects use, in the order Object.keys lists them
KeyOrder ==
    <<"date", "amount", "category", "note", "done", "score",
      "title", "qty", "kind", "foo", "bar", "baz">>

\* Object.keys(value)
ObjectKeys(value) ==
    IF value.k = "array" THEN SubSeq(IndexKeys, 1, Len(value.v))
    ELSE LET Own(key) == key \in DOMAIN value.v
         IN  SelectSeq(KeyOrder, Own)

\* rawData[key]
RawGet(value, key) ==
    IF value.k = "object" THEN Get(value.v, key) ELSE Undefined

\* field.label ?? field.id
FieldName(field) == IF field.label.has THEN field.label.s ELSE field.id

Detail(name, subject, text) ==
    [field |-> name, message |-> <<subject, text>>]

Accept(value) == [ok |-> TRUE, value |-> value, text |-> ""]
Reject(text) == [ok |-> FALSE, value |-> Undefined, text |-> text]

\* case "string"
CheckString(field, value) ==
    IF TypeOf(value) # "string" THEN Reject("must be a string")
    ELSE Accept(value)

\* const n = typeof value === "number" ? value
\*            : typeof value === "string" ? Number(value) : NaN
NumberOrNaN(value) ==
    IF TypeOf(value) = "number" THEN value.v
    ELSE IF TypeOf(value) = "string" THEN StringToNumber(value.v)
    ELSE NaN

\* the three tests on n, and the value emitted
NumberChecks(field, n, emitted) ==
    IF IsNaN(n) THEN Reject("must be a number")
    ELSE IF field.min.has /\ NumLt(n, field.min.x) THEN Reject("must be >= min")
    ELSE IF field.max.has /\ NumGt(n, field.max.x) THEN Reject("must be <= max")
    ELSE Accept(emitted)

\* the same with the max test ahead of the min test
NumberChecksMaxFirst(field, n, emitted) ==
    IF IsNaN(n) THEN Reject("must be a number")
    ELSE IF field.max.has /\ NumGt(n, field.max.x) THEN Reject("must be <= max")
    ELSE IF field.min.has /\ NumLt(n, field.min.x) THEN Reject("must be >= min")
    ELSE Accept(emitted)

\* the case as written but emitting the value as it came in
CheckNumberKeepsRaw(field, value) ==
    NumberChecks(field, NumberOrNaN(value), value)

\* the case as written but with the max test ahead of the min test
CheckNumberMaxFirst(field, value) ==
    NumberChecksMaxFirst(field, NumberOrNaN(value), Num(NumberOrNaN(value)))

\* case "number"
CheckNumber(field, value) ==
    NumberChecks(field, NumberOrNaN(value), Num(NumberOrNaN(value)))

\* the same with the typeof boolean branch left out
CheckBooleanStringsOnly(field, value) ==
    IF TypeOf(value) = "string" /\ value.v = TrueChars THEN Accept(Bool(TRUE))
    ELSE IF TypeOf(value) = "string" /\ value.v = FalseChars THEN Accept(Bool(FALSE))
    ELSE Reject("must be a boolean")

\* case "boolean"
CheckBoolean(field, value) ==
    IF TypeOf(value) = "boolean" THEN Accept(value)
    ELSE IF TypeOf(value) = "string"
    THEN IF value.v = TrueChars THEN Accept(Bool(TRUE))
         ELSE IF value.v = FalseChars THEN Accept(Bool(FALSE))
         ELSE Reject("must be a boolean")
    ELSE Reject("must be a boolean")

\* case "date"
CheckDate(field, value) ==
    IF TypeOf(value) # "string" \/ ~isValidISODateYYYYMMDD(value.v)
    THEN Reject("must be a date in YYYY-MM-DD format")
    ELSE Accept(value)

\* case "select"
CheckSelect(field, value) ==
    IF TypeOf(value) # "string" THEN Reject("must be a string")
    ELSE IF ~(\E i \in 1..Len(field.options) : field.options[i] = value.v)
    THEN Reject("must be one of the options")
    ELSE Accept(value)

\* switch (field.type)
CheckField(field, value) ==
    CASE field.type = "string" -> CheckString(field, value)
      [] field.type = "number" -> CheckNumber(field, value)
      [] field.type = "boolean" -> CheckBoolean(field, value)
      [] field.type = "date" -> CheckDate(field, value)
      [] field.type = "select" -> CheckSelect(field, value)
      [] OTHER -> Reject("Unsupported field type")

\* value === undefined || value === null || value === ""
IsMissing(value) ==
    value = Undefined \/ value = Null \/ value = Str(<<>>)

\* details.push(...) for a failed check, normalized[field.id] = ... for a passed one
Collect(field, acc, chk) ==
    IF chk.ok
    THEN [acc EXCEPT !.normalized = Put(@, field.id, chk.value)]
    ELSE [acc EXCEPT !.details =
             Append(@, Detail(field.id,
                              IF chk.text = "Unsupported field type"
                              THEN "" ELSE FieldName(field),
                              chk.text))]

\* the loop body for the value found at field.id
FieldStepOn(field, value, acc) ==
    IF field.required /\ IsMissing(value)
    THEN [acc EXCEPT !.details =
             Append(@, Detail(field.id, FieldName(field), "is required"))]
    ELSE IF IsMissing(value) THEN acc
    ELSE Collect(field, acc, CheckField(field, value))

\* the same, reporting a problem only while none has been collected yet
FieldStepFirstOnly(field, raw, acc) ==
    IF acc.details = <<>> \/ Len(FieldStepOn(field, RawGet(raw, field.id), acc).details)
                               = Len(acc.details)
    THEN FieldStepOn(field, RawGet(raw, field.id), acc)
    ELSE acc

\* one iteration of for (const field of fields)
FieldStep(field, raw, acc) == FieldStepOn(field, RawGet(raw, field.id), acc)

RECURSIVE FieldLoop(_, _, _, _)
FieldLoop(fields, raw, i, acc) ==
    IF i > Len(fields) THEN acc
    ELSE FieldLoop(fields, raw, i + 1, FieldStep(fields[i], raw, acc))

\* the same with the unknown-key loop left out
UnknownKeyDetailsNone(fields, raw) == <<>>

\* for (const key of Object.keys(rawData)) if (!allowedIds.has(key)) ...
UnknownKeyDetails(fields, raw) ==
    LET allowedIds == {fields[i].id : i \in 1..Len(fields)}
        keys == ObjectKeys(raw)
        Unknown(key) == key \notin allowedIds
        bad == SelectSeq(keys, Unknown)
    IN  [i \in 1..Len(bad) |-> Detail(bad[i], "Unknown field", bad[i])]

NoData == EmptyBag

\* the call ended in an exception instead of a result
Threw == [ok |-> FALSE, data |-> NoData, details |-> <<>>, threw |-> TRUE]

\* if (details.length > 0) return { ok: false, details }; return { ok: true, data }
Outcome(acc) ==
    IF Len(acc.details) > 0
    THEN [ok |-> FALSE, data |-> NoData, details |-> acc.details, threw |-> FALSE]
    ELSE [ok |-> TRUE, data |-> acc.normalized, details |-> <<>>, threw |-> FALSE]

validateAndNormalizeRecordData(fields, raw) ==
    IF ~isPlainObject(raw)
    THEN [ok |-> FALSE, data |-> NoData,
          details |-> <<Detail("_", "data", "must be an object")>>,
          threw |-> FALSE]
    ELSE IF raw \in {Null, Undefined}
    THEN Threw   \* Object.keys(null) is a TypeError
    ELSE Outcome(FieldLoop(fields, raw, 1,
                           [details |-> UnknownKeyDetails(fields, raw),
                            normalized |-> EmptyBag]))

-----------------------------------------------------------------------------
(* Schemas and inputs of the validator runs *)

MaxUnknown == 1

NoLabel == [has |-> FALSE, s |-> ""]
Label(s) == [has |-> TRUE, s |-> s]
NoBound == [has |-> FALSE, x |-> NaN]
Bound(i) == [has |-> TRUE, x |-> Rat(i, 1)]

Field(id, label, type, required, min, max, options) ==
    [id |-> id, label |-> label, type |-> type, required |-> required,
     min |-> min, max |-> max, options |-> options]

FoodChars == <<"F", "o", "o", "d">>
TransportChars == <<"T", "r", "a", "n", "s", "p", "o", "r", "t">>
ShoesChars == <<"S", "h", "o", "e", "s">>

\* date (required date), amount (required number, min 0), category (select)
BudgetSchema ==
    << Field("date", Label("Date"), "date", TRUE, NoBound, NoBound, <<>>),
       Field("amount", Label("Amount"), "number", TRUE, Bound(0), NoBound, <<>>),
       Field("category", Label("Category"), "select", FALSE, NoBound, NoBound,
             <<FoodChars, TransportChars>>) >>

MixedSchema ==
    << Field("note", Label(""), "string", FALSE, NoBound, NoBound, <<>>),
       Field("done", NoLabel, "boolean", TRUE, NoBound, NoBound, <<>>),
       Field("score", NoLabel, "number", FALSE, Bound(0), Bound(100), <<>>) >>

LooseSchema ==
    << Field("title", Label("Title"), "string", TRUE, NoBound, NoBound, <<>>),
       Field("qty", NoLabel, "number", FALSE, NoBound, NoBound, <<>>),
       Field("kind", NoLabel, "select", TRUE, NoBound, NoBound, <<FoodChars>>) >>

DateSchema ==
    << Field("date", NoLabel, "date", FALSE, NoBound, NoBound, <<>>) >>

\* a number field whose declared min lies above its max
InvertedSchema ==
    << Field("score", NoLabel, "number", FALSE, Bound(100), Bound(0), <<>>) >>

Schemas == {BudgetSchema, MixedSchema, LooseSchema, DateSchema, InvertedSchema}

FieldIdsOf(fields) == {fields[i].id : i \in 1..Len(fields)}

UnknownKeyNames == <<"foo", "bar", "baz">>
UnknownKeys == {UnknownKeyNames[i] : i \in 1..MaxUnknown}

Pad2(n) == <<DigitChar(n \div 10), DigitChar(n % 10)>>
Pad4(n) == Pad2(n \div 100) \o Pad2(n % 100)
DateStr(y, m, d) == Pad4(y) \o <<"-">> \o Pad2(m) \o <<"-">> \o Pad2(d)

DateYears == {1900, 2000, 2024, 2026}
DateMonths == 0..13
DateDays == {0, 1, 28, 29, 30, 31, 32}

DateStrings == {DateStr(y, m, d) : y \in DateYears, m \in DateMonths, d \in DateDays}

MalformedDates ==
    { <<"2", "0", "2", "6", "-", "1", "-", "0", "9">>,
      <<"2", "0", "2", "6", "0", "1", "0", "9">>,
      <<"2", "0", "2", "6", "/", "0", "1", "/", "0", "9">>,
      <<"2", "0", "2", "6", "-", "0", "1", "-", "0", "9", " ">>,
      <<"2", "0", "2", "6", "-", "0", "1", "-", "0", "x">> }

DateValues ==
    {Str(s) : s \in DateStrings \cup MalformedDates} \cup {Int2Num(20260109)}

RawValues ==
    { Null,
      Str(<<>>),
      Str(FoodChars),
      Str(ShoesChars),
      Str(<<"4", "2", ".", "5">>),
      Str(<<" ">>),
      Str(InfinityChars),
      Num(Rat(85, 2)),
      Int2Num(-1),
      Int2Num(150),
      Bool(TRUE),
      Str(TrueChars),
      Str(DateStr(2026, 1, 9)),
      Str(DateStr(2026, 2, 30)),
      Obj(EmptyBag) }

NonObjects ==
    { Undefined, Null, Arr(<<>>), Arr(<<Int2Num(1)>>),
      Str(FoodChars), Int2Num(5), Bool(TRUE) }

\* the object-shaped inputs: any subset of the field ids, each with any of
\* the values, and any subset of the unknown keys
BagsOver(ids, values) ==
    { [x \in DOMAIN f \cup u |-> IF x \in u THEN Int2Num(1) ELSE f[x]] :
        f \in UNION {[S -> values] : S \in SUBSET ids}, u \in SUBSET UnknownKeys }

RawInputs(fields) ==
    NonObjects \cup
    {Obj(b) : b \in BagsOver(FieldIdsOf(fields),
                             IF fields = DateSchema THEN DateValues ELSE RawValues)}

NoResult == [ok |-> FALSE, data |-> NoData, details |-> <<>>, threw |-> FALSE]
NoCall == [raw |-> Undefined, result |-> NoResult]

ValidatorIdle ==
    /\ schema = DateSchema
    /\ rawData = Undefined
    /\ isoLenient = TRUE
    /\ vphase = "idle"
    /\ result = NoResult
    /\ firstCall = NoCall

NoResponse == [status |-> 0, error |-> "", details |-> <<>>]
NoRequest == [op |-> "none", body |-> Undefined]

\* an empty database, no request handled yet
ServerIdle ==
    /\ templates = <<>>
    /\ collections = <<>>
    /\ records = <<>>
    /\ response = NoResponse
    /\ request = NoRequest

MetricIdle ==
    /\ mRecords = <<>>
    /\ metric = [op |-> "count"]
    /\ mphase = "idle"
    /\ mResult = NaN

\* a Date: an instant in hours since 1970-01-01T00:00Z, an Invalid Date, or
\* new Date(8640000000000000), the last instant a Date can hold
NoDate == [c |-> "invalid", t |-> 0]
At(t) == [c |-> "at", t |-> t]
MaxDate == [c |-> "max", t |-> 0]

NoRange == [kind |-> "none"]

RangeIdle ==
    /\ tRecords = <<>>
    /\ timeFieldId = ""
    /\ tRange = NoRange
    /\ now = At(0)
    /\ tzOffset = 0
    /\ tphase = "idle"
    /\ tResult = <<>>

FilterIdle ==
    /\ fRecord = [data |-> EmptyBag]
    /\ fFilter = [fieldId |-> "", op |-> "none", value |-> Undefined]
    /\ fphase = "idle"
    /\ fMatch = FALSE

GroupIdle ==
    /\ gRecords = <<>>
    /\ groupBy = [fieldId |-> ""]
    /\ gMetric = [op |-> "count"]
    /\ gphase = "idle"
    /\ gGroups = <<>>
    /\ gRows = <<>>

Forms == {"record", "collection"}

DateIdle ==
    /\ dString = <<>>
    /\ dParsed = NoDate
    /\ dValid = FALSE
    /\ dphase = "idle"

\* no PATCH under way, both forms at rest, the page not mounted, no date read
OtherIdle ==
    /\ DateIdle
    /\ patches = {}
    /\ saving = [f \in Forms |-> FALSE]
    /\ rendered = [f \in Forms |-> FALSE]
    /\ calls = [f \in Forms |-> <<>>]
    /\ created = [f \in Forms |-> 0]
    /\ formError = [f \in Forms |-> ""]
    /\ loading = TRUE
    /\ pageError = ""
    /\ pageCollection = ""
    /\ loads = <<>>

AnalyticsIdle ==
    /\ MetricIdle
    /\ RangeIdle
    /\ FilterIdle
    /\ GroupIdle

InitValidate ==
    /\ schema \in Schemas
    /\ rawData \in RawInputs(schema)
    /\ isoLenient \in (IF schema = DateSchema THEN BOOLEAN ELSE {TRUE})
    /\ vphase = "input"
    /\ result = NoResult
    /\ firstCall = NoCall
    /\ ServerIdle
    /\ OtherIdle
    /\ AnalyticsIdle

\* the same, writing the normalized values back into the caller's object
ValidateInPlace ==
    /\ vphase = "input"
    /\ result' = validateAndNormalizeRecordData(schema, rawData)
    /\ rawData' = IF result'.ok THEN Obj(result'.data) ELSE rawData
    /\ firstCall' = [raw |-> rawData, result |-> result']
    /\ vphase' = "validated"
    /\ UNCHANGED <<schema, isoLenient, serverVars, analyticsVars, otherVars>>

\* a call validateAndNormalizeRecordData(spec, rawData)
Validate ==
    /\ vphase = "input"
    /\ result' = validateAndNormalizeRecordData(schema, rawData)
    /\ firstCall' = [raw |-> rawData, result |-> result']
    /\ vphase' = "validated"
    /\ UNCHANGED <<schema, rawData, isoLenient, serverVars, analyticsVars, otherVars>>

\* a second call, on the data the first call returned
Revalidate ==
    /\ vphase = "validated"
    /\ result.ok
    /\ rawData' = Obj(result.data)
    /\ result' = validateAndNormalizeRecordData(schema, rawData')
    /\ vphase' = "revalidated"
    /\ UNCHANGED <<schema, isoLenient, firstCall, serverVars, analyticsVars, otherVars>>

NextValidate == Validate \/ Revalidate

SpecValidate == InitValidate /\ [][NextValidate]_vars

-----------------------------------------------------------------------------
(* The validator's rules, stated on their own *)

RuleMissing(value) == value \in {Undefined, Null, Str(<<>>)}

\* a string Number() reads as a number: optional white space around an
\* optional sign and Infinity, digits, digits.digits, digits. or .digits;
\* a string of white space alone reads as 0
RuleNumericString(s) ==
    LET inner == {i \in 1..Len(s) : ~IsSpace(s[i])}
    IN  \/ inner = {}
        \/ LET lo == CHOOSE i \in inner : \A j \in inner : i <= j
               hi == CHOOSE i \in inner : \A j \in inner : j <= i
               from == IF s[lo] \in {"+", "-"} THEN lo + 1 ELSE lo
               body == SubSeq(s, from, hi)
           IN  \/ body = InfinityChars
               \/ /\ \A i \in 1..Len(body) : IsDigit(body[i]) \/ body[i] = "."
                  /\ Cardinality({i \in 1..Len(body) : body[i] = "."}) <= 1
                  /\ \E i \in 1..Len(body) : IsDigit(body[i])

RuleIsNumeric(value) ==
    \/ value.k = "number" /\ ~IsNaN(value.v)
    \/ value.k = "string" /\ RuleNumericString(value.v)

RuleNumberOf(value) ==
    IF value.k = "number" THEN value.v ELSE StringToNumber(value.v)

RuleWithin(field, n) ==
    /\ field.min.has => NumGe(n, field.min.x)
    /\ field.max.has => NumLe(n, field.max.x)

RuleLeapYear(y) == y % 4 = 0 /\ (y % 100 # 0 \/ y % 400 = 0)

RuleDaysInMonth(y, m) ==
    CASE m \in {1, 3, 5, 7, 8, 10, 12} -> 31
      [] m \in {4, 6, 9, 11} -> 30
      [] m = 2 -> IF RuleLeapYear(y) THEN 29 ELSE 28
      [] OTHER -> 0

\* YYYY-MM-DD naming a day of the calendar
RuleCalendarDate(s) ==
    /\ Len(s) = 10
    /\ s[5] = "-" /\ s[8] = "-"
    /\ \A i \in {1, 2, 3, 4, 6, 7, 9, 10} : IsDigit(s[i])
    /\ LET y == 1000 * DigitVal(s[1]) + 100 * DigitVal(s[2])
                + 10 * DigitVal(s[3]) + DigitVal(s[4])
           m == 10 * DigitVal(s[6]) + DigitVal(s[7])
           d == 10 * DigitVal(s[9]) + DigitVal(s[10])
       IN  1 <= m /\ m <= 12 /\ 1 <= d /\ d <= RuleDaysInMonth(y, m)

RuleOptions(field) == {field.options[i] : i \in 1..Len(field.options)}

\* a value that is not missing passes the field's rule
RuleFieldOk(field, value) ==
    CASE field.type = "string" -> value.k = "string"
      [] field.type = "number" ->
            RuleIsNumeric(value) /\ RuleWithin(field, RuleNumberOf(value))
      [] field.type = "boolean" ->
            value.k = "boolean" \/ value \in {Str(TrueChars), Str(FalseChars)}
      [] field.type = "date" -> value.k = "string" /\ RuleCalendarDate(value.v)
      [] field.type = "select" ->
            value.k = "string" /\ value.v \in RuleOptions(field)
      [] OTHER -> FALSE

RuleValueAt(raw, id) == IF id \in DOMAIN raw.v THEN raw.v[id] ELSE Undefined

RuleOffending(field, raw) ==
    IF RuleMissing(RuleValueAt(raw, field.id)) THEN field.required
    ELSE ~RuleFieldOk(field, RuleValueAt(raw, field.id))

RuleUnknownKeys(fields, raw) == DOMAIN raw.v \ FieldIdsOf(fields)
RuleOffendingFields(fields, raw) ==
    {i \in 1..Len(fields) : RuleOffending(fields[i], raw)}

Called == vphase \in {"validated", "revalidated"}
CalledOnObject == Called /\ rawData.k = "object"

DetailsFor(name) == {i \in 1..Len(result.details) : result.details[i].field = name}

-----------------------------------------------------------------------------
(* Claims about the validator, checked under SpecValidate *)

\* C1: on an object-shaped input the validator returns ok exactly when the
\* input has no key outside the schema's field ids and every declared field
\* passes its check; otherwise it returns ok:false with a detail for every
\* unknown key and every failing field, not only the first; it never throws.
C1_OkExactlyWhenClean ==
    CalledOnObject =>
        /\ ~result.threw
        /\ result.ok <=> /\ RuleUnknownKeys(schema, rawData) = {}
                         /\ RuleOffendingFields(schema, rawData) = {}
        /\ result.ok => result.details = <<>>
        /\ ~result.ok =>
              /\ result.data = NoData
              /\ result.details # <<>>
              /\ \A key \in RuleUnknownKeys(schema, rawData) : DetailsFor(key) # {}
              /\ \A i \in RuleOffendingFields(schema, rawData) :
                    DetailsFor(schema[i].id) # {}

\* C1 witness: a call that returned two or more problems at once
C1_Witness ==
    CalledOnObject /\ ~result.ok /\ Len(result.details) >= 2
    /\ RuleUnknownKeys(schema, rawData) # {}
    /\ RuleOffendingFields(schema, rawData) # {}

C4_NormalizedConforms ==
    (CalledOnObject /\ result.ok) =>
        /\ DOMAIN result.data =
              {id \in FieldIdsOf(schema) : ~RuleMissing(RuleValueAt(rawData, id))}
        /\ DOMAIN result.data \subseteq FieldIdsOf(schema)
        /\ \A i \in 1..Len(schema) :
              schema[i].required => schema[i].id \in DOMAIN result.data
        /\ \A i \in 1..Len(schema) :
              schema[i].id \in DOMAIN result.data =>
                 LET f == schema[i]
                     v == result.data[f.id]
                 IN  CASE f.type = "number" ->
                             v.k = "number" /\ ~IsNaN(v.v) /\ RuleWithin(f, v.v)
                       [] f.type = "boolean" -> v.k = "boolean"
                       [] f.type = "date" -> v.k = "string" /\ RuleCalendarDate(v.v)
                       [] f.type = "select" ->
                             v.k = "string" /\ v.v \in RuleOptions(f)
                       [] f.type = "string" -> v.k = "string"
                       [] OTHER -> FALSE

\* C4 witness: ok with an optional field left out and a numeric string
\* normalized to a number
C4_Witness ==
    /\ vphase = "validated" /\ result.ok /\ schema = BudgetSchema
    /\ rawData.k = "object"
    /\ "category" \notin DOMAIN result.data
    /\ rawData.v["amount"].k = "string"
    /\ result.data["amount"].k = "number"

\* C5: validating the data a successful validation returned gives ok again,
\* the same data and no details.
C5_Idempotent ==
    vphase = "revalidated" =>
        /\ result.ok
        /\ result.data = firstCall.result.data
        /\ result.details = <<>>

\* C5 witness: a second call on data that differs from the first input
C5_Witness ==
    /\ vphase = "revalidated"
    /\ firstCall.raw # Obj(firstCall.result.data)
    /\ result.data = firstCall.result.data

NumberFields == {i \in 1..Len(schema) : schema[i].type = "number"}
Present(i) == ~RuleMissing(RuleValueAt(rawData, schema[i].id))
DetailTexts(name) == {result.details[j].message[2] : j \in DetailsFor(name)}

DateFields == {i \in 1..Len(schema) : schema[i].type = "date"}

\* C7: a non-missing value of a date field is accepted exactly when it is a
\* YYYY-MM-DD string naming a real calendar date; a string that matches the
\* pattern without naming one is rejected with one detail.
C7_DateField ==
    CalledOnObject =>
        \A i \in DateFields : Present(i) =>
            LET f == schema[i]
                v == RuleValueAt(rawData, f.id)
            IN  /\ DetailsFor(f.id) = {} <=>
                      (v.k = "string" /\ RuleCalendarDate(v.v))
                /\ Cardinality(DetailsFor(f.id)) <= 1
                /\ v \in {Str(DateStr(2026, 2, 30)), Str(DateStr(2026, 13, 1)),
                          Str(DateStr(2026, 1, 32))} =>
                      Cardinality(DetailsFor(f.id)) = 1

\* C7 witness: 2026-02-30 rejected by an engine that rolls the day over
C7_Witness ==
    /\ Called /\ schema = DateSchema /\ isoLenient
    /\ rawData = Obj([x \in {"date"} |-> Str(DateStr(2026, 2, 30))])
    /\ Len(result.details) = 1

\* C8: an input that is not a plain object (null, an array, a primitive)
\* gives ok:false with exactly one detail, whose field is "_"; the key and
\* field checks do not run and nothing is thrown.
C8_StructuralError ==
    (Called /\ rawData.k # "object") =>
        /\ ~result.ok
        /\ ~result.threw
        /\ Len(result.details) = 1
        /\ result.details[1].field = "_"
        /\ result.data = NoData

\* C8 witness: an array handed to a schema with a required field
C8_Witness ==
    /\ Called /\ rawData = Arr(<<Int2Num(1)>>) /\ schema = BudgetSchema
    /\ Len(result.details) = 1

-----------------------------------------------------------------------------
(* The server: storage and the route handlers *)

MaxTemplates == 2
MaxCollections == 1
MaxRecords == 2

\* the ids the database gives to the rows it creates
TemplateIdNames == <<"t1", "t2", "t3">>
CollectionIdNames == <<"c1", "c2", "c3">>

View(id, type, default) == [id |-> id, type |-> type, default |-> default]

BudgetSpec ==
    [schema |-> [fields |-> BudgetSchema],
     views |-> <<View("form", "form", TRUE), View("table", "table", FALSE)>>]

MixedSpec ==
    [schema |-> [fields |-> MixedSchema],
     views |-> <<View("table", "table", FALSE), View("form", "form", FALSE)>>]

TemplateSpecs == {BudgetSpec, MixedSpec}

Response(status, error, details) ==
    [status |-> status, error |-> error, details |-> details]

\* prisma.template.findUnique / prisma.collection.findUnique
FindById(rows, id) == {i \in 1..Len(rows) : rows[i].id = id}
RowById(rows, id) == rows[CHOOSE i \in FindById(rows, id) : TRUE]

\* POST /api/templates
PostTemplate(body) ==
    /\ Len(templates) < MaxTemplates
    /\ request' = [op |-> "POST /api/templates", body |-> body]
    /\ IF ~body.parsed \/ body.name = "" \/ ~body.hasSpec
       THEN /\ response' = Response(400, "Missing name or spec", <<>>)
            /\ UNCHANGED templates
       ELSE /\ templates' = Append(templates,
                [id |-> TemplateIdNames[Len(templates) + 1],
                 name |-> body.name,
                 spec |-> body.spec,
                 version |-> IF body.version = "" THEN "1.0.0" ELSE body.version])
            /\ response' = Response(201, "", <<>>)
    /\ UNCHANGED <<collections, records, validatorVars, analyticsVars, otherVars>>

\* the same, the first view taken whatever is marked
get_first_view_id(spec) ==
    IF Len(spec.views) = 0 THEN "" ELSE spec.views[1].id

get_default_view_id(spec) ==
    LET views == spec.views
        marked == {i \in 1..Len(views) : views[i].default = TRUE}
    IN  IF Len(views) = 0 THEN ""
        ELSE LET defaultId == IF marked = {} THEN ""
                              ELSE views[CHOOSE i \in marked :
                                            \A j \in marked : i <= j].id
             IN  IF defaultId # "" THEN defaultId
                 ELSE views[1].id

NoSettings == [has |-> FALSE, bag |-> EmptyBag]

\* POST /api/collections
PostCollection(body) ==
    /\ Len(collections) < MaxCollections
    /\ request' = [op |-> "POST /api/collections", body |-> body]
    /\ IF ~body.parsed \/ TypeOf(body.name) # "string" \/ body.templateId = ""
       THEN /\ response' = Response(400, "Invalid request body", <<>>)
            /\ UNCHANGED collections
       ELSE IF Len(Trim(body.name.v)) = 0
       THEN /\ response' = Response(400, "Name is required.", <<>>)
            /\ UNCHANGED collections
       ELSE IF FindById(templates, body.templateId) = {}
       THEN /\ response' = Response(404, "Template not found.", <<>>)
            /\ UNCHANGED collections
       ELSE LET template == RowById(templates, body.templateId)
                defaultViewId == get_default_view_id(template.spec)
                settings == IF defaultViewId # ""
                            THEN [has |-> TRUE,
                                  bag |-> [x \in {"activeView"} |-> defaultViewId]]
                            ELSE NoSettings
            IN  /\ collections' = Append(collections,
                       [id |-> CollectionIdNames[Len(collections) + 1],
                        name |-> Trim(body.name.v),
                        templateId |-> template.id,
                        activeVer |-> template.version,
                        settings |-> settings])
                /\ response' = Response(201, "", <<>>)
    /\ UNCHANGED <<templates, records, validatorVars, analyticsVars, otherVars>>

\* collection.template.spec of the collection with this id
SpecOfCollection(id) ==
    RowById(templates, RowById(collections, id).templateId).spec

\* the handler after the validator has returned: reject with the details, or
\* create the record from the normalized data
StoreValidated(body, validated) ==
    IF validated.threw
    THEN /\ response' = Response(500, "Internal Server Error", <<>>)
         /\ UNCHANGED records
    ELSE IF ~validated.ok
    THEN /\ response' = Response(400, "Validation failed", validated.details)
         /\ UNCHANGED records
    ELSE /\ records' = Append(records,
                [collectionId |-> body.collectionId,
                 data |-> Obj(validated.data)])
         /\ response' = Response(201, "", <<>>)

\* the record route as it stood before validation was added: body.data is
\* stored as it came
PostRecordUnvalidated(body) ==
    /\ Len(records) < MaxRecords
    /\ request' = [op |-> "POST /api/records", body |-> body]
    /\ IF ~body.parsed \/ body.collectionId = "" \/ body.data = Undefined
       THEN /\ response' = Response(400, "collectionId and data required", <<>>)
            /\ UNCHANGED records
       ELSE /\ records' = Append(records,
                   [collectionId |-> body.collectionId, data |-> body.data])
            /\ response' = Response(201, "", <<>>)
    /\ UNCHANGED <<templates, collections, validatorVars, analyticsVars, otherVars>>

\* POST /api/records
PostRecord(body) ==
    /\ Len(records) < MaxRecords
    /\ request' = [op |-> "POST /api/records", body |-> body]
    /\ IF ~body.parsed \/ body.collectionId = "" \/ body.data = Undefined
       THEN /\ response' = Response(400, "Invalid request body", <<>>)
            /\ UNCHANGED records
       ELSE IF FindById(collections, body.collectionId) = {}
       THEN /\ response' = Response(404, "Collection not found", <<>>)
            /\ UNCHANGED records
       ELSE StoreValidated(body,
                validateAndNormalizeRecordData(SpecOfCollection(body.collectionId).schema.fields,
                                               body.data))
    /\ UNCHANGED <<templates, collections, validatorVars, analyticsVars, otherVars>>

(* Request bodies *)

\* un-parseable or empty body: req.json() failed or gave a falsy value
NoBody == [parsed |-> FALSE]

TemplateBody(name, hasSpec, spec, version) ==
    [parsed |-> TRUE, name |-> name, hasSpec |-> hasSpec, spec |-> spec,
     version |-> version]

\* name "" and version "" stand for a body without that key
TemplateBodies ==
    { [parsed |-> FALSE, name |-> "", hasSpec |-> FALSE, spec |-> BudgetSpec,
       version |-> ""],
      TemplateBody("", TRUE, BudgetSpec, ""),
      TemplateBody("Budget", FALSE, BudgetSpec, ""),
      TemplateBody("Budget", TRUE, BudgetSpec, ""),
      TemplateBody("Budget", TRUE, MixedSpec, "2.0.0") }

CollectionBody(name, templateId) ==
    [parsed |-> TRUE, name |-> name, templateId |-> templateId]

\* templateId "" stands for a body whose templateId is not a string
CollectionBodies ==
    { [parsed |-> FALSE, name |-> Undefined, templateId |-> ""],
      CollectionBody(Undefined, TemplateIdNames[1]),
      CollectionBody(Str(<<" ">>), TemplateIdNames[1]),
      CollectionBody(Str(<<" ", "M", "y">>), ""),
      CollectionBody(Str(<<" ", "M", "y">>), "nope") }
    \cup {CollectionBody(Str(<<" ", "M", "y">>), TemplateIdNames[i]) :
            i \in 1..MaxTemplates}

BudgetData(date, amount, category) ==
    Obj([x \in {"date", "amount", "category"} |->
            IF x = "date" THEN date ELSE IF x = "amount" THEN amount ELSE category])

RecordData ==
    { Undefined, Null, Arr(<<>>),
      BudgetData(Str(DateStr(2026, 1, 9)), Str(<<"4", "2", ".", "5">>), Str(FoodChars)),
      BudgetData(Str(DateStr(2026, 1, 9)), Int2Num(-1), Str(ShoesChars)),
      BudgetData(Str(DateStr(2026, 2, 30)), Int2Num(150), Null),
      Obj([x \in {"date", "amount"} |->
              IF x = "date" THEN Str(DateStr(2026, 1, 31)) ELSE Int2Num(150)]),
      Obj([x \in {"foo"} |-> Int2Num(1)]),
      Obj([x \in {"done"} |-> Str(TrueChars)]),
      Obj([x \in {"done", "score"} |->
              IF x = "done" THEN Bool(FALSE) ELSE Int2Num(150)]) }

RecordBody(collectionId, data) ==
    [parsed |-> TRUE, collectionId |-> collectionId, data |-> data]

\* collectionId "" stands for a body whose collectionId is not a string
RecordBodies ==
    { [parsed |-> FALSE, collectionId |-> "", data |-> Undefined],
      RecordBody("", Null),
      RecordBody("nope", Null) }
    \cup {RecordBody(CollectionIdNames[i], d) :
            i \in 1..MaxCollections, d \in RecordData}

Init ==
    /\ ServerIdle
    /\ OtherIdle
    /\ ValidatorIdle
    /\ AnalyticsIdle

Next ==
    \/ \E body \in TemplateBodies : PostTemplate(body)
    \/ \E body \in CollectionBodies : PostCollection(body)
    \/ \E body \in RecordBodies : PostRecord(body)

Spec == Init /\ [][Next]_vars

(* Record creation *)

\* a step of the records route, and the body it was called with
IsRecordsPost == request'.op = "POST /api/records"

\* what validating the request's data against the collection's template returns
ValidationOf(body) ==
    validateAndNormalizeRecordData(SpecOfCollection(body.collectionId).schema.fields,
                                   body.data)

\* the request names a stored collection and carries data, so it is validated
IsValidated(body) ==
    /\ body.parsed
    /\ body.data # Undefined
    /\ FindById(collections, body.collectionId) # {}

\* C2: over any sequence of POST /api/records requests, storage changes only by
\* one record being appended, and only when validating the request's data
\* against the collection's template returned ok, the stored data being exactly
\* the normalized bag; a request whose data fails validation is answered 400
\* with the validator's details list and leaves templates, collections and
\* records as they were.
C2_StoreOnlyValidated ==
    [][IsRecordsPost =>
          /\ records' # records =>
                /\ IsValidated(request'.body)
                /\ ValidationOf(request'.body).ok
                /\ records' = Append(records,
                       [collectionId |-> request'.body.collectionId,
                        data |-> Obj(ValidationOf(request'.body).data)])
                /\ response'.status = 201
          /\ (IsValidated(request'.body) /\ ~ValidationOf(request'.body).ok) =>
                /\ response'.status = 400
                /\ response'.details = ValidationOf(request'.body).details
                /\ response'.details # <<>>
                /\ UNCHANGED <<templates, collections, records>>
          /\ UNCHANGED <<templates, collections>>]_vars

\* a request with two problems was turned down after a record whose amount
\* arrived as the string "42.5" had been stored as the number 42.5
C2_Witness ==
    /\ request.op = "POST /api/records"
    /\ response.status = 400
    /\ Len(response.details) >= 2
    /\ Len(records) = 1
    /\ Get(records[1].data.v, "amount") = Num(Rat(85, 2))

-----------------------------------------------------------------------------
(* Analytics runtime: strings of values *)

RECURSIVE IntToString(_)
\* the decimal digits of a natural number
IntToString(n) ==
    IF n < 10 THEN <<DigitChar(n)>>
    ELSE Append(IntToString(n \div 10), DigitChar(n % 10))

MaxFractionDigits == 6

RECURSIVE FractionDigits(_, _, _)
\* the digits after the point of r/d, r < d
FractionDigits(r, d, left) ==
    IF r = 0 \/ left = 0 THEN <<>>
    ELSE <<DigitChar((r * 10) \div d)>> \o FractionDigits((r * 10) % d, d, left - 1)

PositiveToString(n, d) ==
    IF n % d = 0 THEN IntToString(n \div d)
    ELSE IntToString(n \div d) \o <<".">> \o FractionDigits(n % d, d, MaxFractionDigits)

NaNChars == <<"N", "a", "N">>

\* Number::toString for the values that print without an exponent
NumToString(x) ==
    CASE x.c = "nan" -> NaNChars
      [] x.c = "pinf" -> InfinityChars
      [] x.c = "ninf" -> <<"-">> \o InfinityChars
      [] OTHER -> IF x.n < 0 THEN <<"-">> \o PositiveToString(-x.n, x.d)
                  ELSE PositiveToString(x.n, x.d)

ObjectChars ==
    <<"[", "o", "b", "j", "e", "c", "t", " ", "O", "b", "j", "e", "c", "t", "]">>
NullChars == <<"n", "u", "l", "l">>
UndefinedChars == <<"u", "n", "d", "e", "f", "i", "n", "e", "d">>

RECURSIVE JsString(_)
RECURSIVE JoinFrom(_, _)
\* Array.prototype.join(","): null and undefined elements print as ""
JoinFrom(elems, i) ==
    IF i > Len(elems) THEN <<>>
    ELSE (IF i > 1 THEN <<",">> ELSE <<>>)
         \o (IF elems[i] \in {Null, Undefined} THEN <<>> ELSE JsString(elems[i]))
         \o JoinFrom(elems, i + 1)

\* String(value)
JsString(value) ==
    CASE value.k = "string" -> value.v
      [] value.k = "number" -> NumToString(value.v)
      [] value.k = "boolean" -> IF value.v THEN TrueChars ELSE FalseChars
      [] value.k = "null" -> NullChars
      [] value.k = "undefined" -> UndefinedChars
      [] value.k = "array" -> JoinFrom(value.v, 1)
      [] OTHER -> ObjectChars

\* Boolean(value)
ToBoolean(value) ==
    CASE value.k = "boolean" -> value.v
      [] value.k = "string" -> value.v # <<>>
      [] value.k = "number" -> ~IsNaN(value.v) /\ value.v # Rat(0, 1)
      [] value.k \in {"null", "undefined"} -> FALSE
      [] OTHER -> TRUE

UpperCase == <<"A", "B", "C", "D", "E", "F", "G", "H", "I", "J", "K", "L", "M",
               "N", "O", "P", "Q", "R", "S", "T", "U", "V", "W", "X", "Y", "Z">>
LowerCase == <<"a", "b", "c", "d", "e", "f", "g", "h", "i", "j", "k", "l", "m",
               "n", "o", "p", "q", "r", "s", "t", "u", "v", "w", "x", "y", "z">>

LowerChar(c) ==
    IF \E i \in 1..Len(UpperCase) : UpperCase[i] = c
    THEN LowerCase[CHOOSE i \in 1..Len(UpperCase) : UpperCase[i] = c]
    ELSE c

\* String.prototype.toLowerCase
toLowerCase(s) == [i \in 1..Len(s) |-> LowerChar(s[i])]

\* the same, looking at the start of s only
includesAtStart(s, part) ==
    Len(part) <= Len(s) /\ SubSeq(s, 1, Len(part)) = part

\* String.prototype.includes
includes(s, part) ==
    \E i \in 0..(Len(s) - Len(part)) : SubSeq(s, i + 1, i + Len(part)) = part

(* Analytics runtime: helpers *)

\* Number.isNaN(n) ? null : n
NumberOrNull(n) == IF IsNaN(n) THEN Null ELSE Num(n)

\* the same without the test for a blank string
toNumberBlankIsZero(raw) ==
    IF TypeOf(raw) = "number" /\ ~IsNaN(raw.v) THEN raw
    ELSE IF TypeOf(raw) = "string" THEN NumberOrNull(StringToNumber(raw.v))
    ELSE Null

toNumber(raw) ==
    IF TypeOf(raw) = "number" /\ ~IsNaN(raw.v) THEN raw
    ELSE IF TypeOf(raw) = "string" /\ Len(Trim(raw.v)) > 0
    THEN NumberOrNull(StringToNumber(raw.v))
    ELSE Null

\* the same without the boolean case
looselyEqualByString(a, b) ==
    IF a \in {Null, Undefined} THEN FALSE
    ELSE JsString(a) = JsString(b)

looselyEqual(a, b) ==
    IF a \in {Null, Undefined} THEN FALSE
    ELSE IF TypeOf(a) = "boolean" \/ TypeOf(b) = "boolean"
    THEN ToBoolean(a) = ToBoolean(b)
    ELSE JsString(a) = JsString(b)

normalizeComparable(raw) ==
    IF raw \in {Null, Undefined} THEN Null
    ELSE IF TypeOf(raw) = "string" THEN raw
    ELSE IF TypeOf(raw) = "number" THEN raw
    ELSE IF TypeOf(raw) = "boolean"
    THEN Str(IF raw.v THEN TrueChars ELSE FalseChars)
    ELSE Str(JsString(raw))

\* the same, comparing the values themselves
SomeEqualsStrictly(candidates, v) ==
    IF v = Null THEN FALSE
    ELSE \E i \in 1..Len(candidates) : candidates[i] = v

\* filter.value.some((x) => String(x) === String(v)), v not null
SomeEquals(candidates, v) ==
    IF v = Null THEN FALSE
    ELSE \E i \in 1..Len(candidates) : JsString(candidates[i]) = JsString(v)

\* the same with n > bound
AtLeastStrictly(n, bound) == n # Null /\ NumGt(n.v, bound.v)

\* n !== null && n >= bound
AtLeast(n, bound) == n # Null /\ NumGe(n.v, bound.v)

\* n !== null && n <= bound
AtMost(n, bound) == n # Null /\ NumLe(n.v, bound.v)

\* record.data?.[fieldId]
FieldOf(record, fieldId) == Get(record.data, fieldId)

\* the switch of matchesFilter on the raw value
MatchesRaw(raw, filter) ==
    CASE filter.op = "eq" -> looselyEqual(raw, filter.value)
      [] filter.op = "neq" -> ~looselyEqual(raw, filter.value)
      [] filter.op = "in" -> SomeEquals(filter.value.v, normalizeComparable(raw))
      [] filter.op = "gte" -> AtLeast(toNumber(raw), filter.value)
      [] filter.op = "lte" -> AtMost(toNumber(raw), filter.value)
      [] filter.op = "contains" ->
            includes(toLowerCase(IF raw \in {Null, Undefined} THEN <<>>
                                 ELSE JsString(raw)),
                     toLowerCase(filter.value.v))
      [] OTHER -> TRUE

matchesFilter(record, filter) == MatchesRaw(FieldOf(record, filter.fieldId), filter)

\* filters.every((f) => matchesFilter(r, f))
EveryFilter(record, filters) ==
    \A i \in 1..Len(filters) : matchesFilter(record, filters[i])

\* filters is undefined (has = FALSE) or a list
applyFilters(recs, filters) ==
    IF ~filters.has \/ Len(filters.list) = 0 THEN recs
    ELSE LET Keep(r) == EveryFilter(r, filters.list)
         IN  SelectSeq(recs, Keep)

(* Analytics runtime: metrics *)

RECURSIVE NumericValues(_, _, _)
\* for (const r of filtered) { const n = toNumber(raw); if (n !== null) values.push(n) }
NumericValues(filtered, fieldId, i) ==
    IF i > Len(filtered) THEN <<>>
    ELSE (IF toNumber(FieldOf(filtered[i], fieldId)) = Null THEN <<>>
          ELSE <<toNumber(FieldOf(filtered[i], fieldId)).v>>)
         \o NumericValues(filtered, fieldId, i + 1)

RECURSIVE SumFrom(_, _, _)
\* values.reduce((a, b) => a + b, 0)
SumFrom(values, i, acc) ==
    IF i > Len(values) THEN acc
    ELSE SumFrom(values, i + 1, NumAdd(acc, values[i]))

Smaller(a, b) == IF NumLt(b, a) THEN b ELSE a
Larger(a, b) == IF NumGt(b, a) THEN b ELSE a

RECURSIVE MinFrom(_, _, _)
\* Math.min(...values), values without NaN
MinFrom(values, i, acc) ==
    IF i > Len(values) THEN acc
    ELSE MinFrom(values, i + 1, Smaller(acc, values[i]))

RECURSIVE MaxFrom(_, _, _)
\* Math.max(...values), values without NaN
MaxFrom(values, i, acc) ==
    IF i > Len(values) THEN acc
    ELSE MaxFrom(values, i + 1, Larger(acc, values[i]))

Zero == Rat(0, 1)

\* if (values.length === 0) return 0; switch (metric.op)
Reduce(op, values) ==
    IF Len(values) = 0 THEN Zero
    ELSE CASE op = "sum" -> SumFrom(values, 1, Zero)
           [] op = "avg" -> NumDivInt(SumFrom(values, 1, Zero), Len(values))
           [] op = "min" -> MinFrom(values, 1, PosInf)
           [] op = "max" -> MaxFrom(values, 1, NegInf)
           [] OTHER -> Zero

\* the same, counting only the records whose field is numeric
MetricOverCountsNumeric(filtered, mt) ==
    IF mt.op = "count" THEN Rat(Len(NumericValues(filtered, mt.fieldId, 1)), 1)
    ELSE IF mt.fieldId = "" THEN Zero
    ELSE Reduce(mt.op, NumericValues(filtered, mt.fieldId, 1))

\* computeMetric once the metric-local filters have been applied
MetricOver(filtered, mt) ==
    IF mt.op = "count" THEN Rat(Len(filtered), 1)
    ELSE IF mt.fieldId = "" THEN Zero
    ELSE Reduce(mt.op, NumericValues(filtered, mt.fieldId, 1))

\* fieldId "" stands for a metric without fieldId
computeMetric(recs, mt) ==
    MetricOver(IF mt.filters.has /\ Len(mt.filters.list) > 0
               THEN applyFilters(recs, mt.filters)
               ELSE recs,
               mt)

(* Analytics runtime: inputs *)

MaxMetricRecords == 3

Chars42p5 == <<"4", "2", ".", "5">>

Record(amount, category) ==
    [data |-> [x \in {"amount", "category"} |->
                  IF x = "amount" THEN amount ELSE category]]

\* records as they come out of storage and out of in-memory callers
MetricRecordPool ==
    { Record(Num(Rat(85, 2)), Str(FoodChars)),
      Record(Str(Chars42p5), Str(TransportChars)),
      Record(Int2Num(-1), Str(FoodChars)),
      Record(Str(<<" ">>), Str(FoodChars)),
      Record(Str(ShoesChars), Null),
      Record(Str(InfinityChars), Str(FoodChars)),
      Record(Str(<<"-">> \o InfinityChars), Bool(TRUE)),
      Record(Num(NaN), Int2Num(1)),
      [data |-> [x \in {"category"} |-> Str(FoodChars)]] }

RECURSIVE SeqsUpTo(_, _)
SeqsUpTo(S, n) ==
    IF n = 0 THEN {<<>>}
    ELSE SeqsUpTo(S, n - 1)
         \cup {Append(s, x) : s \in {t \in SeqsUpTo(S, n - 1) : Len(t) = n - 1}, x \in S}

Filter(fieldId, op, value) == [fieldId |-> fieldId, op |-> op, value |-> value]

NoFilters == [has |-> FALSE, list |-> <<>>]
Filters(list) == [has |-> TRUE, list |-> list]

FilterLists ==
    { NoFilters,
      Filters(<<>>),
      Filters(<<Filter("category", "eq", Str(FoodChars))>>),
      Filters(<<Filter("category", "neq", Bool(TRUE))>>),
      Filters(<<Filter("amount", "in", Arr(<<Num(Rat(85, 2)), Str(ShoesChars)>>))>>),
      Filters(<<Filter("amount", "gte", Int2Num(0))>>),
      Filters(<<Filter("category", "contains", Str(<<"O", "o">>)),
                Filter("amount", "lte", Int2Num(100))>>) }

MetricOps == {"count", "sum", "avg", "min", "max"}

Metrics ==
    {[op |-> op, fieldId |-> f, filters |-> fl] :
        op \in MetricOps, f \in {"amount"}, fl \in FilterLists}
    \cup {[op |-> op, fieldId |-> "", filters |-> NoFilters] : op \in {"count", "sum"}}

InitMetric ==
    /\ mRecords \in SeqsUpTo(MetricRecordPool, MaxMetricRecords)
    /\ metric \in Metrics
    /\ mphase = "input"
    /\ mResult = NaN
    /\ RangeIdle
    /\ FilterIdle
    /\ GroupIdle
    /\ ValidatorIdle
    /\ ServerIdle
    /\ OtherIdle

\* one call of computeMetric(records, metric)
ComputeMetric ==
    /\ mphase = "input"
    /\ mResult' = computeMetric(mRecords, metric)
    /\ mphase' = "computed"
    /\ UNCHANGED <<mRecords, metric, rangeVars, filterVars, groupVars, validatorVars,
                   serverVars, otherVars>>

NextMetric == ComputeMetric

SpecMetric == InitMetric /\ [][NextMetric]_vars

(* Metrics: what the aggregate should be *)

\* the metric's filters all match record i
RuleKept(i) ==
    metric.filters.has =>
        \A k \in 1..Len(metric.filters.list) :
            matchesFilter(mRecords[i], metric.filters.list[k])

\* a number other than NaN, or a string that is not blank and reads as a number
RuleMetricNumeric(value) ==
    \/ value.k = "number" /\ ~IsNaN(value.v)
    \/ /\ value.k = "string"
       /\ \E i \in 1..Len(value.v) : ~IsSpace(value.v[i])
       /\ RuleNumericString(value.v)

RuleMetricValue(i) == FieldOf(mRecords[i], metric.fieldId)

\* the records whose field value enters the aggregate
RuleCounted ==
    {i \in 1..Len(mRecords) : RuleKept(i) /\ RuleMetricNumeric(RuleMetricValue(i))}

RECURSIVE RuleSum(_)
RuleSum(S) ==
    IF S = {} THEN Zero
    ELSE LET i == CHOOSE j \in S : TRUE
         IN  NumAdd(RuleNumberOf(RuleMetricValue(i)), RuleSum(S \ {i}))

\* C9: the number computeMetric returns is finite, never NaN and never
\* +Infinity or -Infinity, whatever the records' fields hold (each row value of
\* computeGroupedMetric is computeMetric over one partition of the records).
C9_MetricFinite == mphase = "computed" => IsFiniteNum(mResult)

\* C10: for sum, avg, min and max over a field, computeMetric is the sum, the
\* mean, the least or the greatest of the values of the records the filters
\* keep whose field is a number or a numeric string, the mean being taken over
\* the number of those values, and it is 0 when there is no such value.
C10_Aggregate ==
    (mphase = "computed" /\ metric.op \in {"sum", "avg", "min", "max"}
        /\ metric.fieldId # "") =>
        IF RuleCounted = {} THEN mResult = Zero
        ELSE CASE metric.op = "sum" -> mResult = RuleSum(RuleCounted)
               [] metric.op = "avg" ->
                     mResult = NumDivInt(RuleSum(RuleCounted), Cardinality(RuleCounted))
               [] metric.op = "min" ->
                     /\ \E i \in RuleCounted : mResult = RuleNumberOf(RuleMetricValue(i))
                     /\ \A i \in RuleCounted : NumLe(mResult, RuleNumberOf(RuleMetricValue(i)))
               [] metric.op = "max" ->
                     /\ \E i \in RuleCounted : mResult = RuleNumberOf(RuleMetricValue(i))
                     /\ \A i \in RuleCounted : NumGe(mResult, RuleNumberOf(RuleMetricValue(i)))

\* an average over three kept records, one of them blank and one of the two
\* numeric ones given as a string
C10_Witness ==
    /\ mphase = "computed"
    /\ metric.op = "avg"
    /\ metric.fieldId = "amount"
    /\ Len(mRecords) = 3
    /\ \A i \in 1..3 : RuleKept(i)
    /\ Cardinality(RuleCounted) = 2
    /\ \E i \in RuleCounted : RuleMetricValue(i).k = "string"
    /\ \E i \in 1..3 : RuleMetricValue(i) = Str(<<" ">>)
    /\ mResult = Rat(83, 4)

\* C11: for op count, computeMetric is the number of records that satisfy every
\* filter of the metric (all the records when the metric has no filters or an
\* empty list), whether or not fieldId is set and whatever the field holds.
C11_Count ==
    (mphase = "computed" /\ metric.op = "count") =>
        mResult = Rat(Cardinality({i \in 1..Len(mRecords) : RuleKept(i)}), 1)

\* a count of two out of three records, one dropped by the filters and one of
\* the kept ones without a numeric field
C11_Witness ==
    /\ mphase = "computed"
    /\ metric.op = "count"
    /\ metric.filters.has /\ Len(metric.filters.list) > 0
    /\ Len(mRecords) = 3
    /\ mResult = Rat(2, 1)
    /\ \E i \in 1..3 : ~RuleKept(i)
    /\ \E i \in 1..3 : RuleKept(i) /\ ~RuleMetricNumeric(RuleMetricValue(i))

-----------------------------------------------------------------------------
(* Analytics runtime: dates in local time *)

\* local time is UTC + tzOffset, a whole number of hours with no daylight
\* saving; the local day number of an instant
LocalDay(t) == (t + tzOffset) \div 24

\* getFullYear, getMonth + 1, getDate
LocalCivil(date) == CivilFromDays(LocalDay(date.t))

\* MakeDay on a year and a month index that may lie outside 0..11
DayOfMonths(months, day) ==
    DaysFromCivil(months \div 12, (months % 12) + 1, 1) + (day - 1)

\* new Date(year, monthIndex, day): local midnight; a year 0..99 means 1900 + year
NewDateLocal(year, monthIndex, day) ==
    At(DayOfMonths((IF year >= 0 /\ year <= 99 THEN 1900 + year ELSE year) * 12
                       + monthIndex, day) * 24 - tzOffset)

CivilStartOfDay(c) == NewDateLocal(c.y, c.m - 1, c.d)
CivilStartOfMonth(c) == NewDateLocal(c.y, c.m - 1, 1)
CivilStartOfYear(c) == NewDateLocal(c.y, 0, 1)
CivilAddMonths(c, months) == NewDateLocal(c.y, c.m - 1 + months, 1)
CivilAddYears(c, years) == NewDateLocal(c.y + years, 0, 1)

startOfDay(d) == CivilStartOfDay(LocalCivil(d))
startOfMonth(d) == CivilStartOfMonth(LocalCivil(d))
startOfYear(d) == CivilStartOfYear(LocalCivil(d))

\* next.setDate(next.getDate() + days) on a copy of d
addDays(d, days) == At(d.t + 24 * days)

\* the same, the month index wrapping round within the year of d
addMonthsWithinYear(d, months) ==
    NewDateLocal(LocalCivil(d).y, (LocalCivil(d).m - 1 + months) % 12, 1)

addMonths(d, months) == CivilAddMonths(LocalCivil(d), months)
addYears(d, years) == CivilAddYears(LocalCivil(d), years)

\* the date-time form YYYY-MM-DDTHH:mm:ssZ
MatchesDateTimeZ(s) ==
    /\ Len(s) = 20
    /\ MatchesYMD(SubSeq(s, 1, 10))
    /\ s[11] = "T" /\ s[14] = ":" /\ s[17] = ":" /\ s[20] = "Z"
    /\ \A i \in {12, 13, 15, 16, 18, 19} : IsDigit(s[i])

\* the instant of a UTC civil date and hour, Invalid Date when a field is out
\* of range
UtcInstant(y, m, d, hh, mm, ss) ==
    IF m < 1 \/ m > 12 \/ d < 1 \/ hh > 23 \/ mm > 59 \/ ss > 59 THEN NoDate
    ELSE IF CivilFromDays(DaysFromCivil(y, m, d)).m # m THEN NoDate
    ELSE At(DaysFromCivil(y, m, d) * 24 + hh)

\* new Date(s) for a string that is not a bare YYYY-MM-DD: the date-time form
\* is read as UTC; the strings drawn otherwise are ones no engine reads as a
\* date
DateParse(s) ==
    IF MatchesDateTimeZ(s)
    THEN UtcInstant(ParseDigits(SubSeq(s, 1, 4)), ParseDigits(SubSeq(s, 6, 7)),
                    ParseDigits(SubSeq(s, 9, 10)), ParseDigits(SubSeq(s, 12, 13)),
                    ParseDigits(SubSeq(s, 15, 16)), ParseDigits(SubSeq(s, 18, 19)))
    ELSE NoDate

\* the YYYY-MM-DD branch of parseDate
ParseYMD(t) ==
    NewDateLocal(StringToNumber(SubSeq(t, 1, 4)).n,
                 StringToNumber(SubSeq(t, 6, 7)).n - 1,
                 StringToNumber(SubSeq(t, 9, 10)).n)

\* an Invalid Date stands for null
parseDate(s) ==
    IF MatchesYMD(Trim(s)) THEN ParseYMD(Trim(s)) ELSE DateParse(s)

\* record.data[timeFieldId] read as a day; an Invalid Date stands for null
DateOfRaw(raw) ==
    IF raw \in {Null, Undefined} THEN NoDate
    ELSE IF parseDate(JsString(raw)).c = "invalid" THEN NoDate
    ELSE startOfDay(parseDate(JsString(raw)))

getRecordDate(record, fieldId) == DateOfRaw(FieldOf(record, fieldId))

\* a <= b and a < b on Dates that are not invalid
DateLe(a, b) ==
    \/ b.c = "max"
    \/ a.c = "at" /\ b.c = "at" /\ a.t <= b.t

DateLt(a, b) ==
    \/ a.c = "at" /\ b.c = "max"
    \/ a.c = "at" /\ b.c = "at" /\ a.t < b.t

NoInterval == <<NoDate, NoDate>>

\* the same without the day added to the end
ExplicitIntervalToExcluded(start, end) ==
    IF start.c = "invalid" \/ end.c = "invalid" THEN NoInterval
    ELSE <<startOfDay(start), startOfDay(end)>>

\* the explicit branch once both bounds are parsed
ExplicitInterval(start, end) ==
    IF start.c = "invalid" \/ end.c = "invalid" THEN NoInterval
    ELSE <<startOfDay(start), addDays(startOfDay(end), 1)>>

\* [start, endExclusive); NoDate stands for null
resolveTimeRange(range, at) ==
    IF range.kind = "explicit"
    THEN ExplicitInterval(parseDate(range.from), parseDate(range.to))
    ELSE CASE range.preset = "all_time" -> <<At(0), MaxDate>>
           [] range.preset = "this_month" ->
                 <<startOfMonth(at), startOfMonth(addMonths(at, 1))>>
           [] range.preset = "last_month" ->
                 <<startOfMonth(addMonths(at, -1)), startOfMonth(at)>>
           [] range.preset = "this_year" ->
                 <<startOfYear(at), startOfYear(addYears(at, 1))>>
           [] OTHER -> NoInterval

\* d >= start && d < endExclusive, false when the record has no date
InInterval(d, interval) ==
    /\ d.c # "invalid"
    /\ DateLe(interval[1], d)
    /\ DateLt(d, interval[2])

\* the same, dropping the records without a date when there is no interval
FilterByIntervalDated(recs, fieldId, interval) ==
    LET Keep(r) == InInterval(getRecordDate(r, fieldId), interval)
        Dated(r) == getRecordDate(r, fieldId).c # "invalid"
    IN  IF interval[1].c = "invalid" \/ interval[2].c = "invalid"
        THEN SelectSeq(recs, Dated)
        ELSE SelectSeq(recs, Keep)

\* applyTimeRange once the interval is resolved
FilterByInterval(recs, fieldId, interval) ==
    IF interval[1].c = "invalid" \/ interval[2].c = "invalid" THEN recs
    ELSE LET Keep(r) == InInterval(getRecordDate(r, fieldId), interval)
         IN  SelectSeq(recs, Keep)

\* the ids drawn that are undefined ("") or blank after trim()
BlankIds == {"", " "}

applyTimeRange(recs, fieldId, range, at) ==
    IF range.kind = "none" THEN recs
    ELSE IF fieldId \in BlankIds THEN recs
    ELSE FilterByInterval(recs, fieldId, resolveTimeRange(range, at))

(* Analytics runtime: time-range inputs *)

MaxRangeRecords == 2

DatedRecord(value) == [data |-> [x \in {"date"} |-> value]]

DateTimeChars ==
    DateStr(2026, 1, 31)
    \o <<"T", "2", "2", ":", "0", "0", ":", "0", "0", "Z">>

\* records whose time field is a day, a date-time, not a date, or missing
RangeRecordPool ==
    { DatedRecord(Str(DateStr(2026, 1, 31))),
      DatedRecord(Str(DateStr(2026, 2, 1))),
      DatedRecord(Str(DateStr(2025, 12, 31))),
      DatedRecord(Str(DateStr(2026, 1, 1))),
      DatedRecord(Str(DateStr(2026, 1, 3))),
      DatedRecord(Str(DateStr(2026, 1, 4))),
      DatedRecord(Str(DateStr(2027, 1, 1))),
      DatedRecord(Str(DateStr(1969, 12, 31))),
      DatedRecord(Str(DateStr(9999, 12, 31))),
      DatedRecord(Str(DateTimeChars)),
      DatedRecord(Str(FoodChars)),
      [data |-> [x \in {"amount"} |-> Int2Num(1)]] }

Preset(name) == [kind |-> "preset", preset |-> name]
FromTo(from, to) == [kind |-> "explicit", from |-> from, to |-> to]

\* "bogus" stands for a range object with neither a known preset nor both bounds
Ranges ==
    { NoRange,
      Preset("all_time"), Preset("this_month"), Preset("last_month"),
      Preset("this_year"), Preset("bogus"),
      FromTo(DateStr(2026, 1, 1), DateStr(2026, 1, 3)),
      FromTo(<<" ">> \o DateStr(2026, 1, 3), DateStr(2026, 1, 1)),
      FromTo(DateStr(1969, 12, 31), DateStr(9999, 12, 31)),
      FromTo(DateTimeChars, DateStr(2026, 2, 1)),
      FromTo(FoodChars, DateStr(2026, 1, 3)),
      FromTo(DateStr(2026, 1, 1), <<>>) }

\* the instant of hour hh of the UTC day y-m-d
Instant(y, m, d, hh) == At(DaysFromCivil(y, m, d) * 24 + hh)

Nows == {Instant(2026, 1, 15, 12), Instant(2026, 1, 31, 22), Instant(2026, 3, 1, 2)}

TzOffsets == {-5, 0, 9}

InitRange ==
    /\ tRecords \in SeqsUpTo(RangeRecordPool, MaxRangeRecords)
    /\ \/ /\ timeFieldId = "date"
          /\ tRange \in {Preset("this_month"), Preset("last_month"), Preset("this_year")}
          /\ now \in Nows
          /\ tzOffset \in TzOffsets
       \* only the presets of months and years read now
       \/ /\ timeFieldId = "date"
          /\ tRange \in Ranges \ {Preset("this_month"), Preset("last_month"),
                                  Preset("this_year")}
          /\ now = Instant(2026, 1, 15, 12)
          /\ tzOffset \in TzOffsets
       \/ /\ timeFieldId \in BlankIds
          /\ tRange \in {Preset("this_month"), FromTo(DateStr(2026, 1, 1), DateStr(2026, 1, 3))}
          /\ now = Instant(2026, 1, 15, 12)
          /\ tzOffset = 0
    /\ tphase = "input"
    /\ tResult = <<>>
    /\ MetricIdle
    /\ FilterIdle
    /\ GroupIdle
    /\ ValidatorIdle
    /\ ServerIdle
    /\ OtherIdle

\* one call of applyTimeRange(records, timeFieldId, range, now)
ApplyTimeRange ==
    /\ tphase = "input"
    /\ tResult' = applyTimeRange(tRecords, timeFieldId, tRange, now)
    /\ tphase' = "applied"
    /\ UNCHANGED <<tRecords, timeFieldId, tRange, now, tzOffset,
                   metricVars, filterVars, groupVars, validatorVars, serverVars, otherVars>>

NextRange == ApplyTimeRange

SpecRange == InitRange /\ [][NextRange]_vars

(* Time ranges: what should be kept *)

\* the record's time field reads as a date
RuleDated(r) == getRecordDate(r, timeFieldId).c = "at"

\* the local calendar day of the record's date
RuleDayOf(r) == LocalCivil(getRecordDate(r, timeFieldId))

\* a is the same day as b or an earlier one
RuleCivilLe(a, b) ==
    \/ a.y < b.y
    \/ a.y = b.y /\ a.m < b.m
    \/ a.y = b.y /\ a.m = b.m /\ a.d <= b.d

\* the day c lies in the preset's month or year, counted from today
RuleInPreset(c, today) ==
    CASE tRange.preset = "this_month" -> c.y = today.y /\ c.m = today.m
      [] tRange.preset = "last_month" ->
            IF today.m = 1 THEN c.y = today.y - 1 /\ c.m = 12
            ELSE c.y = today.y /\ c.m = today.m - 1
      [] tRange.preset = "this_year" -> c.y = today.y

RuleKeptByPreset(r) == RuleDated(r) /\ RuleInPreset(RuleDayOf(r), LocalCivil(now))

\* C12: with a time field bound, applyTimeRange with the preset this_month,
\* last_month or this_year keeps exactly the records whose date lies in the
\* calendar month of now, the calendar month before it (December of the year
\* before when now is in January) or the calendar year of now, in input order.
C12_Presets ==
    (tphase = "applied" /\ timeFieldId = "date" /\ tRange.kind = "preset"
        /\ tRange.preset \in {"this_month", "last_month", "this_year"}) =>
        tResult = SelectSeq(tRecords, RuleKeptByPreset)

\* now = 2026-01-15 and this_month: of a record dated 2026-01-31 and one dated
\* 2026-02-01 the first alone is returned
C12_Witness ==
    /\ tphase = "applied"
    /\ tRange = Preset("this_month")
    /\ now = Instant(2026, 1, 15, 12)
    /\ tRecords = <<DatedRecord(Str(DateStr(2026, 1, 31))),
                    DatedRecord(Str(DateStr(2026, 2, 1)))>>
    /\ tResult = <<DatedRecord(Str(DateStr(2026, 1, 31)))>>

\* C13: under the preset all_time, with a time field bound, every record whose
\* time field reads as a date is kept, however far back or ahead the date lies.
C13_AllTime ==
    (tphase = "applied" /\ timeFieldId = "date" /\ tRange = Preset("all_time")) =>
        tResult = SelectSeq(tRecords, RuleDated)

RuleKeptByBounds(r) ==
    /\ RuleDated(r)
    /\ RuleCivilLe(LocalCivil(parseDate(tRange.from)), RuleDayOf(r))
    /\ RuleCivilLe(RuleDayOf(r), LocalCivil(parseDate(tRange.to)))

\* C14: for an explicit range whose two bounds read as dates, exactly the
\* records dated from the day of from to the day of to, both included, are
\* kept, in input order.
C14_Explicit ==
    (tphase = "applied" /\ timeFieldId = "date" /\ tRange.kind = "explicit"
        /\ parseDate(tRange.from).c = "at" /\ parseDate(tRange.to).c = "at") =>
        tResult = SelectSeq(tRecords, RuleKeptByBounds)

\* from 2026-01-01 to 2026-01-03: of a record dated 2026-01-03 and one dated
\* 2026-01-04 the first alone is returned
C14_Witness ==
    /\ tphase = "applied"
    /\ tRange = FromTo(DateStr(2026, 1, 1), DateStr(2026, 1, 3))
    /\ timeFieldId = "date"
    /\ tRecords = <<DatedRecord(Str(DateStr(2026, 1, 3))),
                    DatedRecord(Str(DateStr(2026, 1, 4)))>>
    /\ tResult = <<DatedRecord(Str(DateStr(2026, 1, 3)))>>

\* C15: when a bound of an explicit range does not read as a date, when no
\* range is given, or when the time field id is undefined or blank,
\* applyTimeRange returns the records it was given, in their order.
C15_NoFiltering ==
    (tphase = "applied"
        /\ \/ tRange.kind = "none"
           \/ timeFieldId \in BlankIds
           \/ /\ tRange.kind = "explicit"
              /\ \/ parseDate(tRange.from).c = "invalid"
                 \/ parseDate(tRange.to).c = "invalid") =>
        tResult = tRecords

\* a range whose from is not a date, on two records of which one has no time
\* field and the other lies after to
C15_Witness ==
    /\ tphase = "applied"
    /\ timeFieldId = "date"
    /\ tRange = FromTo(FoodChars, DateStr(2026, 1, 3))
    /\ Len(tRecords) = 2
    /\ ~RuleDated(tRecords[1])
    /\ tRecords[2] = DatedRecord(Str(DateStr(2026, 1, 4)))
    /\ tResult = tRecords

(* Analytics runtime: fFilter inputs *)

FieldRecord(value) == [data |-> [x \in {"f"} |-> value]]

FiveChars == <<"5">>
UpperFoodChars == <<"F", "O", "O", "D">>

\* records whose field f is missing or holds a value of each kind
FilterRecordPool ==
    {[data |-> EmptyBag]}
    \cup {FieldRecord(v) : v \in
            { Null, Str(<<>>), Str(<<" ">>), Str(FiveChars), Str(<<"5", ".", "0">>),
              Str(<<" ", "5">>), Str(<<"7">>), Str(FoodChars), Str(UpperFoodChars),
              Str(TrueChars), Str(InfinityChars), Str(NullChars),
              Int2Num(5), Int2Num(0), Int2Num(-1), Num(Rat(85, 2)), Num(NaN),
              Bool(TRUE), Bool(FALSE), Obj(EmptyBag), Arr(<<Int2Num(5)>>) }}

EqValues ==
    { Int2Num(5), Int2Num(0), Str(FiveChars), Str(FoodChars), Str(<<>>),
      Str(TrueChars), Str(NullChars), Str(<<"N", "a", "N">>), Bool(TRUE), Bool(FALSE) }

InValues ==
    { Arr(<<>>), Arr(<<Str(FiveChars), Str(<<"7">>)>>), Arr(<<Int2Num(5), Str(FoodChars)>>),
      Arr(<<Str(TrueChars)>>), Arr(<<Num(Rat(85, 2)), Str(<<>>)>>) }

BoundValues == {Int2Num(5), Int2Num(0), Int2Num(-1), Num(Rat(85, 2)), Num(PosInf)}

ContainsValues ==
    { Str(<<>>), Str(<<"o", "o">>), Str(<<"O", "O">>), Str(FiveChars),
      Str(<<"d", "x">>), Str(NullChars), Str(<<"u", "e">>) }

FilterInputs ==
    {Filter("f", op, v) : op \in {"eq", "neq"}, v \in EqValues}
    \cup {Filter("f", "in", v) : v \in InValues}
    \cup {Filter("f", op, v) : op \in {"gte", "lte"}, v \in BoundValues}
    \cup {Filter("f", "contains", v) : v \in ContainsValues}

InitFilter ==
    /\ fRecord \in FilterRecordPool
    /\ fFilter \in FilterInputs
    /\ fphase = "input"
    /\ fMatch = FALSE
    /\ MetricIdle
    /\ RangeIdle
    /\ GroupIdle
    /\ ValidatorIdle
    /\ ServerIdle
    /\ OtherIdle

\* one call of matchesFilter(record, filter)
MatchFilter ==
    /\ fphase = "input"
    /\ fMatch' = matchesFilter(fRecord, fFilter)
    /\ fphase' = "matched"
    /\ UNCHANGED <<fRecord, fFilter, metricVars, rangeVars, groupVars,
                   validatorVars, serverVars, otherVars>>

NextFilter == MatchFilter

SpecFilter == InitFilter /\ [][NextFilter]_vars

(* Filters: what should match *)

RuleRaw == FieldOf(fRecord, fFilter.fieldId)
RulePresent == RuleRaw \notin {Null, Undefined}

\* true for everything but false, 0, NaN, "", null and undefined
RuleTruthy(value) ==
    CASE value.k = "boolean" -> value.v
      [] value.k = "number" -> value.v \notin {NaN, Zero}
      [] value.k = "string" -> Len(value.v) > 0
      [] value.k \in {"null", "undefined"} -> FALSE
      [] OTHER -> TRUE

\* the loose equality of a present record value and a filter value
RuleLooselyEqual(a, b) ==
    IF a.k = "boolean" \/ b.k = "boolean"
    THEN RuleTruthy(a) = RuleTruthy(b)
    ELSE JsString(a) = JsString(b)

\* C16: a filter with op eq matches exactly when the record's value is present
\* and loosely equal to the filter value (equal under boolean coercion when
\* either is a boolean, equal as strings otherwise); op neq matches exactly
\* when op eq with the same value does not, a missing value included.
C16_EqNeq ==
    /\ (fphase = "matched" /\ fFilter.op = "eq") =>
          (fMatch <=> (RulePresent /\ RuleLooselyEqual(RuleRaw, fFilter.value)))
    /\ (fphase = "matched" /\ fFilter.op = "neq") =>
          /\ fMatch <=> ~(RulePresent /\ RuleLooselyEqual(RuleRaw, fFilter.value))
          /\ fMatch <=> ~matchesFilter(fRecord, [fFilter EXCEPT !.op = "eq"])

\* the string Food is found equal to the filter value true
C16_Witness ==
    /\ fphase = "matched"
    /\ fFilter = Filter("f", "eq", Bool(TRUE))
    /\ fRecord = FieldRecord(Str(FoodChars))
    /\ fMatch

\* the record value as a string, booleans as true and false
RuleText(value) ==
    IF value.k = "boolean" THEN (IF value.v THEN TrueChars ELSE FalseChars)
    ELSE JsString(value)

\* C17: a filter with op in matches exactly when the record's value is present
\* and its string form equals the string form of a candidate of the list; a
\* missing value and an empty list match nothing.
C17_In ==
    (fphase = "matched" /\ fFilter.op = "in") =>
        (fMatch <=> /\ RulePresent
                    /\ \E i \in 1..Len(fFilter.value.v) :
                          JsString(fFilter.value.v[i]) = RuleText(RuleRaw))

\* the number 5 matches the list "5", "7"
C17_Witness ==
    /\ fphase = "matched"
    /\ fFilter = Filter("f", "in", Arr(<<Str(FiveChars), Str(<<"7">>)>>))
    /\ fRecord = FieldRecord(Int2Num(5))
    /\ fMatch

\* C18: a filter with op gte (lte) matches exactly when the record's value is a
\* number other than NaN or a non-blank numeric string and that number is at
\* least (at most) the filter value.
C18_Bounds ==
    (fphase = "matched" /\ fFilter.op \in {"gte", "lte"}) =>
        (fMatch <=> /\ RuleMetricNumeric(RuleRaw)
                    /\ IF fFilter.op = "gte"
                       THEN NumGe(RuleNumberOf(RuleRaw), fFilter.value.v)
                       ELSE NumLe(RuleNumberOf(RuleRaw), fFilter.value.v))

\* the string " 5" matches gte 5
C18_Witness ==
    /\ fphase = "matched"
    /\ fFilter = Filter("f", "gte", Int2Num(5))
    /\ fRecord = FieldRecord(Str(<<" ", "5">>))
    /\ fMatch

\* part occurs in s
RuleOccursIn(part, s) ==
    \E pre, post \in 0..Len(s) :
        /\ pre + Len(part) + post = Len(s)
        /\ \A i \in 1..Len(part) : s[pre + i] = part[i]

\* C19: a filter with op contains matches exactly when the lower-cased filter
\* value occurs in the lower-cased string form of the record's value, a
\* missing value counting as the empty string.
C19_Contains ==
    (fphase = "matched" /\ fFilter.op = "contains") =>
        (fMatch <=> RuleOccursIn(toLowerCase(fFilter.value.v),
                                 toLowerCase(IF RulePresent THEN JsString(RuleRaw)
                                             ELSE <<>>)))

\* FOOD contains oo
C19_Witness ==
    /\ fphase = "matched"
    /\ fFilter = Filter("f", "contains", Str(<<"o", "o">>))
    /\ fRecord = FieldRecord(Str(UpperFoodChars))
    /\ fMatch

-----------------------------------------------------------------------------
(* Analytics runtime: grouping *)

EmptyKeyChars == <<"(", "e", "m", "p", "t", "y", ")">>

\* the same, an empty string keeping its own key
normalizeGroupKeyKeepsBlank(raw) ==
    IF raw \in {Null, Undefined} THEN EmptyKeyChars
    ELSE JsString(normalizeComparable(raw))

normalizeGroupKey(raw) ==
    IF raw \in {Null, Undefined} \/ raw = Str(<<>>) THEN EmptyKeyChars
    ELSE JsString(normalizeComparable(raw))

\* map.get(key): the position of the key among the entries, 0 when absent
EntryOf(map, key) ==
    IF \E i \in 1..Len(map) : map[i].key = key
    THEN CHOOSE i \in 1..Len(map) : map[i].key = key
    ELSE 0

\* arr.push(r) on the entry at position at, map.set(key, [r]) when at = 0
PutRecord(map, at, key, r) ==
    IF at = 0 THEN Append(map, [key |-> key, records |-> <<r>>])
    ELSE [map EXCEPT ![at].records = Append(@, r)]

\* one iteration of for (const r of records)
GroupStep(map, key, r) == PutRecord(map, EntryOf(map, key), key, r)

RECURSIVE GroupFrom(_, _, _, _)
GroupFrom(recs, fieldId, i, map) ==
    IF i > Len(recs) THEN map
    ELSE GroupFrom(recs, fieldId, i + 1,
                   GroupStep(map, normalizeGroupKey(FieldOf(recs[i], fieldId)), recs[i]))

\* the Map as the sequence of its entries in insertion order
groupByField(recs, fieldId) == GroupFrom(recs, fieldId, 1, <<>>)

\* the same, count taken after the metric's own filters
RowsOfCountsKept(grouped, mt) ==
    [i \in 1..Len(grouped) |->
        [key |-> grouped[i].key,
         value |-> computeMetric(grouped[i].records, mt),
         count |-> Len(applyFilters(grouped[i].records, mt.filters))]]

\* Array.from(grouped.entries()).map(...)
RowsOf(grouped, mt) ==
    [i \in 1..Len(grouped) |->
        [key |-> grouped[i].key,
         value |-> computeMetric(grouped[i].records, mt),
         count |-> Len(grouped[i].records)]]

\* the sign of a number, NaN counting as 0 as it does for a comparator
SignOf(x) ==
    CASE x.c = "pinf" -> 1
      [] x.c = "ninf" -> -1
      [] x.c = "nan" -> 0
      [] OTHER -> IF x.n > 0 THEN 1 ELSE IF x.n < 0 THEN -1 ELSE 0

\* (a, b) => (dir === "asc" ? a.value - b.value : b.value - a.value)
Compare(a, b, dir) ==
    IF dir = "asc" THEN SignOf(NumAdd(a.value, NumNeg(b.value)))
    ELSE SignOf(NumAdd(b.value, NumNeg(a.value)))

\* the comparator orders the rows consistently: being equal and being before
\* are transitive
IsConsistent(rows, dir) ==
    \A i, j, k \in 1..Len(rows) :
        /\ (Compare(rows[i], rows[j], dir) = 0 /\ Compare(rows[j], rows[k], dir) = 0)
              => Compare(rows[i], rows[k], dir) = 0
        /\ (Compare(rows[i], rows[j], dir) < 0 /\ Compare(rows[j], rows[k], dir) < 0)
              => Compare(rows[i], rows[k], dir) < 0

\* the rows before which row goes: none that compares equal to it or before it
InsertAt(sorted, row, dir) ==
    IF \E i \in 1..Len(sorted) : Compare(sorted[i], row, dir) > 0
    THEN CHOOSE i \in 1..Len(sorted) :
            /\ Compare(sorted[i], row, dir) > 0
            /\ \A j \in 1..(i - 1) : Compare(sorted[j], row, dir) <= 0
    ELSE Len(sorted) + 1

InsertRow(sorted, row, at) ==
    SubSeq(sorted, 1, at - 1) \o <<row>> \o SubSeq(sorted, at, Len(sorted))

RECURSIVE StableSortFrom(_, _, _, _)
\* the order a stable sort gives under a consistent comparator
StableSortFrom(rows, dir, i, sorted) ==
    IF i > Len(rows) THEN sorted
    ELSE StableSortFrom(rows, dir, i + 1,
                        InsertRow(sorted, rows[i], InsertAt(sorted, rows[i], dir)))

\* every order of the rows
Reorderings(rows) ==
    {[i \in 1..Len(rows) |-> rows[p[i]]] : p \in Permutations(1..Len(rows))}

\* rows.sort(comparator): the stable order when the comparator is consistent,
\* an order the engine chooses when it is not
SortOutcomes(rows, dir) ==
    IF IsConsistent(rows, dir) THEN {StableSortFrom(rows, dir, 1, <<>>)}
    ELSE Reorderings(rows)

\* if (typeof groupBy.limit === "number" && groupBy.limit > 0) rows.slice(0, limit)
Limited(rows, limit) ==
    IF limit.has /\ limit.n > 0 /\ limit.n < Len(rows) THEN SubSeq(rows, 1, limit.n)
    ELSE rows

\* the results computeGroupedMetric can return; dir "" stands for no sort given
computeGroupedMetric(recs, by, mt) ==
    {Limited(rows, by.limit) :
        rows \in SortOutcomes(RowsOf(groupByField(recs, by.fieldId), mt),
                              IF by.dir = "" THEN "desc" ELSE by.dir)}

(* Analytics runtime: grouping inputs *)

MaxGroupRecords == 3

GroupRecordPool ==
    { Record(Num(Rat(85, 2)), Str(FoodChars)),
      Record(Str(InfinityChars), Str(FoodChars)),
      Record(Str(<<"-">> \o InfinityChars), Str(FoodChars)),
      Record(Int2Num(-1), Str(TransportChars)),
      Record(Int2Num(5), Str(<<>>)),
      Record(Int2Num(7), Null),
      Record(Int2Num(1), Int2Num(5)),
      Record(Int2Num(2), Str(FiveChars)),
      Record(Int2Num(3), Bool(TRUE)),
      [data |-> [x \in {"amount"} |-> Int2Num(4)]] }

NoLimit == [has |-> FALSE, n |-> 0]
Limit(n) == [has |-> TRUE, n |-> n]

GroupBy(dir, limit) == [fieldId |-> "category", dir |-> dir, limit |-> limit]

GroupBys ==
    { GroupBy("", NoLimit), GroupBy("asc", NoLimit), GroupBy("desc", NoLimit),
      GroupBy("", Limit(2)), GroupBy("asc", Limit(0)), GroupBy("desc", Limit(1)) }

GroupMetrics ==
    { [op |-> "sum", fieldId |-> "amount", filters |-> NoFilters],
      [op |-> "count", fieldId |-> "",
       filters |-> Filters(<<Filter("amount", "gte", Int2Num(2))>>)] }

\* longer inputs: a partition whose sum is Infinity + -Infinity between two
\* partitions with finite sums
LongGroupInputs ==
    { <<Record(Int2Num(-1), Str(TransportChars)),
        Record(Str(InfinityChars), Str(FoodChars)),
        Record(Str(<<"-">> \o InfinityChars), Str(FoodChars)),
        Record(Int2Num(5), Str(<<>>))>> }

InitGroup ==
    /\ gRecords \in SeqsUpTo(GroupRecordPool, MaxGroupRecords) \cup LongGroupInputs
    /\ groupBy \in GroupBys
    /\ gMetric \in GroupMetrics
    /\ gphase = "input"
    /\ gGroups = <<>>
    /\ gRows = <<>>
    /\ MetricIdle
    /\ RangeIdle
    /\ FilterIdle
    /\ ValidatorIdle
    /\ ServerIdle
    /\ OtherIdle

\* one call of groupByField(records, groupBy.fieldId)
GroupByField ==
    /\ gphase = "input"
    /\ gGroups' = groupByField(gRecords, groupBy.fieldId)
    /\ gphase' = "grouped"
    /\ UNCHANGED <<gRecords, groupBy, gMetric, gRows,
                   metricVars, rangeVars, filterVars, validatorVars, serverVars, otherVars>>

\* one call of computeGroupedMetric({records, groupBy, metric})
ComputeGroupedMetric ==
    /\ gphase = "input"
    /\ gRows' \in computeGroupedMetric(gRecords, groupBy, gMetric)
    /\ gphase' = "computed"
    /\ UNCHANGED <<gRecords, groupBy, gMetric, gGroups,
                   metricVars, rangeVars, filterVars, validatorVars, serverVars, otherVars>>

NextGroup ==
    \/ GroupByField
    \/ ComputeGroupedMetric

SpecGroup == InitGroup /\ [][NextGroup]_vars

(* Grouping: what the partitions should be *)

\* the canonical string of the record's value at groupBy.fieldId, the sentinel
\* for undefined, null and the empty string
RuleGroupKey(r) ==
    IF FieldOf(r, groupBy.fieldId) \in {Null, Undefined, Str(<<>>)} THEN EmptyKeyChars
    ELSE RuleText(FieldOf(r, groupBy.fieldId))

\* the input records with this key, in input order
RuleMembers(key) ==
    LET HasKey(r) == RuleGroupKey(r) = key
    IN  SelectSeq(gRecords, HasKey)

RECURSIVE RuleCountSum(_, _)
RuleCountSum(rows, i) ==
    IF i > Len(rows) THEN 0 ELSE rows[i].count + RuleCountSum(rows, i + 1)

\* C20: groupByField partitions the records: the keys are pairwise distinct,
\* each partition holds, in input order, exactly the records whose canonical
\* key (the sentinel "(empty)" for undefined, null and the empty string) is
\* its key, every record's key has a partition, and without a limit the counts
\* of the rows of computeGroupedMetric add up to the number of records.
C20_Partition ==
    /\ gphase = "grouped" =>
          /\ \A i, j \in 1..Len(gGroups) : gGroups[i].key = gGroups[j].key => i = j
          /\ \A i \in 1..Len(gGroups) :
                /\ gGroups[i].records # <<>>
                /\ gGroups[i].records = RuleMembers(gGroups[i].key)
          /\ \A k \in 1..Len(gRecords) :
                \E i \in 1..Len(gGroups) : gGroups[i].key = RuleGroupKey(gRecords[k])
    /\ (gphase = "computed" /\ ~groupBy.limit.has) =>
          RuleCountSum(gRows, 1) = Len(gRecords)

\* three records, the first with an empty string and the third without the
\* field, both under the sentinel key, the second in a partition of its own
C20_Witness ==
    /\ gphase = "grouped"
    /\ Len(gRecords) = 3
    /\ FieldOf(gRecords[1], "category") = Str(<<>>)
    /\ FieldOf(gRecords[3], "category") = Undefined
    /\ Len(gGroups) = 2
    /\ gGroups[1] = [key |-> EmptyKeyChars, records |-> <<gRecords[1], gRecords[3]>>]
    /\ gGroups[2].records = <<gRecords[2]>>

(* Grouping: what the rows should be *)

\* the limit that takes effect: a number above 0
RuleLimited == groupBy.limit.has /\ groupBy.limit.n > 0

\* C21: every row of computeGroupedMetric stands for a partition of the input:
\* its value is computeMetric over the partition's records with the metric
\* passed in, its count is the number of records of the partition before the
\* metric's own filters, and without a limit every partition has its row, also
\* one whose records the metric's filters all remove.
C21_Rows ==
    gphase = "computed" =>
        /\ \A i \in 1..Len(gRows) :
              /\ RuleMembers(gRows[i].key) # <<>>
              /\ gRows[i].value = computeMetric(RuleMembers(gRows[i].key), gMetric)
              /\ gRows[i].count = Len(RuleMembers(gRows[i].key))
        /\ ~RuleLimited =>
              \A k \in 1..Len(gRecords) :
                  \E i \in 1..Len(gRows) : gRows[i].key = RuleGroupKey(gRecords[k])

\* a count of the records with amount >= 2: the partition of the one record
\* with amount 1 has the row value 0, count 1
C21_Witness ==
    /\ gphase = "computed"
    /\ gMetric.op = "count"
    /\ gMetric.filters.has
    /\ gRecords = <<Record(Int2Num(1), Int2Num(5)), Record(Int2Num(3), Bool(TRUE))>>
    /\ gRows = <<[key |-> TrueChars, value |-> Rat(1, 1), count |-> 1],
                 [key |-> FiveChars, value |-> Zero, count |-> 1]>>

\* the record at which the key is first seen
RuleFirstSeen(key) ==
    CHOOSE k \in 1..Len(gRecords) :
        /\ RuleGroupKey(gRecords[k]) = key
        /\ \A j \in 1..(k - 1) : RuleGroupKey(gRecords[j]) # key

\* value a sorts strictly before value b in the direction asked for
RuleSortsBefore(a, b) ==
    IF groupBy.dir = "asc" THEN NumLt(a, b) ELSE NumLt(b, a)

\* C22: the rows of computeGroupedMetric are ordered by value, descending
\* unless the direction asked for is asc: no row stands after a row whose value
\* sorts strictly after its own, and of two rows with equal value the one whose
\* key was seen first in the input stands first.
C22_Sorted ==
    gphase = "computed" =>
        \A i, j \in 1..Len(gRows) :
            i < j =>
                /\ ~RuleSortsBefore(gRows[j].value, gRows[i].value)
                /\ gRows[i].value = gRows[j].value =>
                      RuleFirstSeen(gRows[i].key) < RuleFirstSeen(gRows[j].key)

\* the keys of the partitions of the input
RuleKeys == {RuleGroupKey(gRecords[k]) : k \in 1..Len(gRecords)}

RuleRowKeys == {gRows[i].key : i \in 1..Len(gRows)}

RuleMin(a, b) == IF a < b THEN a ELSE b

\* C23: with a limit the result has min(limit, number of partitions) rows and
\* no partition left out has a value that sorts strictly before the value of a
\* row kept (the rows are cut after they are sorted); without a limit the
\* result has a row for every partition.
C23_Limit ==
    gphase = "computed" =>
        /\ groupBy.limit.has =>
              Len(gRows) = RuleMin(groupBy.limit.n, Cardinality(RuleKeys))
        /\ ~groupBy.limit.has => RuleRowKeys = RuleKeys
        /\ \A key \in RuleKeys \ RuleRowKeys :
              \A i \in 1..Len(gRows) :
                  ~RuleSortsBefore(computeMetric(RuleMembers(key), gMetric), gRows[i].value)

-----------------------------------------------------------------------------
(* The validator and the analytics runtime called on a caller's values *)

MaxCallRecords == 2

\* one call of one of the functions, on the inputs of its own specification
InitCalls ==
    \/ InitValidate
    \/ InitFilter
    \/ InitMetric /\ Len(mRecords) <= MaxCallRecords
    \/ InitRange /\ Len(tRecords) <= MaxCallRecords
    \/ InitGroup /\ Len(gRecords) <= MaxCallRecords

NextCalls ==
    \/ Validate
    \/ Revalidate
    \/ MatchFilter
    \/ ComputeMetric
    \/ ApplyTimeRange
    \/ GroupByField
    \/ ComputeGroupedMetric

SpecCalls == InitCalls /\ [][NextCalls]_vars

-----------------------------------------------------------------------------
(* Template authoring: POST /api/templates on specs of every shape *)

SummaryView(id, metrics) ==
    [id |-> id, type |-> "summary", default |-> FALSE, metrics |-> metrics]

\* two fields with the id "note"
TwiceFieldSpec ==
    [schema |-> [fields |->
        << Field("note", NoLabel, "string", FALSE, NoBound, NoBound, <<>>),
           Field("note", NoLabel, "number", FALSE, NoBound, NoBound, <<>>) >>],
     views |-> <<View("form", "form", TRUE)>>]

\* two views with the id "table"
TwiceViewSpec ==
    [schema |-> [fields |-> MixedSchema],
     views |-> <<View("table", "table", FALSE), View("table", "form", FALSE)>>]

\* a select field without options
NoOptionSpec ==
    [schema |-> [fields |->
        << Field("kind", NoLabel, "select", TRUE, NoBound, NoBound, <<>>) >>],
     views |-> <<View("form", "form", TRUE)>>]

\* a sum metric without fieldId
NoFieldMetricSpec ==
    [schema |-> [fields |-> BudgetSchema],
     views |-> << View("form", "form", TRUE),
                  SummaryView("summary",
                      << [id |-> "total", op |-> "sum", fieldId |-> ""],
                         [id |-> "n", op |-> "count", fieldId |-> ""] >>) >>]

AuthoredBodies ==
    TemplateBodies \cup
    { TemplateBody("Draft", TRUE, spec, "") :
        spec \in TemplateSpecs \cup
                 {TwiceFieldSpec, TwiceViewSpec, NoOptionSpec, NoFieldMetricSpec} }
    \cup {TemplateBody("Draft", TRUE, BudgetSpec, "2.0.0")}

NextTemplates == \E body \in AuthoredBodies : PostTemplate(body)

SpecTemplates == Init /\ [][NextTemplates]_vars

RuleSelectHasOption(field) == field.type = "select" => Len(field.options) >= 1

RuleMetricsHaveField(view) ==
    view.type = "summary" =>
        \A k \in 1..Len(view.metrics) :
            view.metrics[k].op # "count" => view.metrics[k].fieldId # ""

RuleWellFormed(spec) ==
    /\ \A i, j \in 1..Len(spec.schema.fields) :
          spec.schema.fields[i].id = spec.schema.fields[j].id => i = j
    /\ \A i, j \in 1..Len(spec.views) : spec.views[i].id = spec.views[j].id => i = j
    /\ \A i \in 1..Len(spec.schema.fields) : RuleSelectHasOption(spec.schema.fields[i])
    /\ \A i \in 1..Len(spec.views) : RuleMetricsHaveField(spec.views[i])

\* C25: every template in storage has pairwise distinct field ids, pairwise
\* distinct view ids, at least one option on every select field and a fieldId
\* on every metric whose op is not count: a spec that breaks one of these is
\* rejected when the template is created.
C25_Authored ==
    \A i \in 1..Len(templates) : RuleWellFormed(templates[i].spec)

-----------------------------------------------------------------------------
(* Collections and their active view: POST and PATCH /api/collections *)

MaxPatches == 2

FormChars == <<"f", "o", "r", "m">>
TableChars == <<"t", "a", "b", "l", "e">>
NopeChars == <<"n", "o", "p", "e">>

\* the characters of a view id
ViewIdChars(id) ==
    CASE id = "form" -> FormChars
      [] id = "table" -> TableChars
      [] OTHER -> <<>>

\* the second view is the one marked default
LateDefaultSpec ==
    [schema |-> [fields |-> MixedSchema],
     views |-> <<View("table", "table", FALSE), View("form", "form", TRUE)>>]

\* the view marked default has no usable id ("" stands for an id that is
\* absent, not a string or empty)
BlankDefaultSpec ==
    [schema |-> [fields |-> MixedSchema],
     views |-> <<View("table", "table", FALSE), View("", "form", TRUE)>>]

\* no view has a usable id
NoIdSpec ==
    [schema |-> [fields |-> MixedSchema], views |-> <<View("", "form", TRUE)>>]

NoViewSpec == [schema |-> [fields |-> MixedSchema], views |-> <<>>]

ViewTemplateBodies ==
    { TemplateBody("", TRUE, BudgetSpec, "") }
    \cup { TemplateBody("Draft", TRUE, spec, "2.0.0") :
             spec \in {BudgetSpec, MixedSpec, LateDefaultSpec, BlankDefaultSpec,
                       NoIdSpec, NoViewSpec} }

\* the same, every activeView passing
isValidViewAlways(views, activeView) == TRUE

\* views.some((v) => typeof view?.id === "string" && view.id === activeView)
isValidView(views, activeView) ==
    \E i \in 1..Len(views) :
        views[i].id # "" /\ ViewIdChars(views[i].id) = activeView

\* const isValidView = Array.isArray(views) && views.some(...)
IsViewOf(spec, activeView) == isValidView(spec.views, activeView)

\* the view id a valid activeView names
ViewIdOf(spec, activeView) ==
    IF \E i \in 1..Len(spec.views) : ViewIdChars(spec.views[i].id) = activeView
    THEN spec.views[CHOOSE i \in 1..Len(spec.views) :
                        ViewIdChars(spec.views[i].id) = activeView].id
    ELSE "other"

\* (existing.settings ?? {}), then { ...prior, activeView }
NextSettings(settings, activeView) ==
    LET prior == IF settings.has THEN settings.bag ELSE EmptyBag
    IN  [has |-> TRUE,
         bag |-> [x \in DOMAIN prior \cup {"activeView"} |->
                     IF x = "activeView" THEN activeView ELSE prior[x]]]

\* PATCH /api/collections as far as the await of prisma.collection.update:
\* the body checks, findUnique and the view check
PatchCollection(body) ==
    /\ Cardinality(patches) < MaxPatches
    /\ request' = [op |-> "PATCH /api/collections", body |-> body]
    /\ IF ~body.parsed \/ body.id = "" \/ TypeOf(body.activeView) # "string"
       THEN /\ response' = Response(400, "id and activeView required", <<>>)
            /\ UNCHANGED patches
       ELSE IF Len(Trim(body.activeView.v)) = 0
       THEN /\ response' = Response(400, "activeView required", <<>>)
            /\ UNCHANGED patches
       ELSE IF FindById(collections, body.id) = {}
       THEN /\ response' = Response(404, "Collection not found", <<>>)
            /\ UNCHANGED patches
       ELSE IF ~IsViewOf(SpecOfCollection(body.id), Trim(body.activeView.v))
       THEN /\ response' = Response(400, "Validation failed", <<"activeView">>)
            /\ UNCHANGED patches
       ELSE /\ patches' = patches \cup
                   {[id |-> body.id,
                     settings |-> NextSettings(
                         RowById(collections, body.id).settings,
                         ViewIdOf(SpecOfCollection(body.id), Trim(body.activeView.v)))]}
            /\ response' = NoResponse
    /\ UNCHANGED <<templates, collections, records, validatorVars, analyticsVars,
                   formVars, pageVars, dateVars>>

\* prisma.collection.update({ where: { id }, data: { settings: next } }) and
\* the 200 response of one PATCH under way
PatchUpdate(patch) ==
    /\ patch \in patches
    /\ patches' = patches \ {patch}
    /\ collections' =
          [i \in 1..Len(collections) |->
              IF collections[i].id = patch.id
              THEN [collections[i] EXCEPT !.settings = patch.settings]
              ELSE collections[i]]
    /\ request' = [op |-> "PATCH /api/collections (update)", body |-> NoBody]
    /\ response' = Response(200, "", <<>>)
    /\ UNCHANGED <<templates, records, validatorVars, analyticsVars, formVars, pageVars,
                   dateVars>>

PatchBody(id, activeView) == [parsed |-> TRUE, id |-> id, activeView |-> activeView]

\* id "" stands for a body whose id is not a string
PatchBodies ==
    { [parsed |-> FALSE, id |-> "", activeView |-> Undefined],
      PatchBody("", Str(FormChars)),
      PatchBody(CollectionIdNames[1], Undefined),
      PatchBody(CollectionIdNames[1], Str(<<" ">>)),
      PatchBody("nope", Str(FormChars)) }
    \cup { PatchBody(CollectionIdNames[i], Str(v)) :
             i \in 1..MaxCollections,
             v \in {FormChars, <<" ">> \o TableChars \o <<" ">>, NopeChars} }

NamedCollectionBodies ==
    { CollectionBody(Str(<<" ", "M", "y">>), TemplateIdNames[i]) : i \in 1..MaxTemplates }

\* the templates of the runs with PATCH requests
PatchTemplateBodies ==
    { TemplateBody("", TRUE, BudgetSpec, "") }
    \cup { TemplateBody("Draft", TRUE, spec, "2.0.0") :
             spec \in {BudgetSpec, BlankDefaultSpec, NoViewSpec} }

\* templates and collections created from them
NextCollections ==
    \/ \E body \in ViewTemplateBodies : PostTemplate(body)
    \/ \E body \in NamedCollectionBodies : PostCollection(body)

SpecCollections == Init /\ [][NextCollections]_vars

NextViews ==
    \/ \E body \in PatchTemplateBodies : PostTemplate(body)
    \/ \E body \in NamedCollectionBodies : PostCollection(body)
    \/ \E body \in PatchBodies : PatchCollection(body)
    \/ \E patch \in patches : PatchUpdate(patch)

SpecViews == Init /\ [][NextViews]_vars

(* Collections: what the active view should be *)

\* a step that stores a new collection
IsCollectionCreated == Len(collections') = Len(collections) + 1

RuleNewCollection == collections'[Len(collections')]

RuleTemplateOf(collection) == RowById(templates, collection.templateId)

RuleMarked(views) == {i \in 1..Len(views) : views[i].default = TRUE}

RuleFirstMarked(views) == CHOOSE i \in RuleMarked(views) : \A j \in RuleMarked(views) : i <= j

\* the id of the view marked default, of the first view when none is marked
RuleDefaultView(views) ==
    IF RuleMarked(views) # {} THEN views[RuleFirstMarked(views)].id ELSE views[1].id

\* the claim as it was made: a collection created from a template with a
\* non-empty view list gets as activeView the id of the view marked default,
\* or of the first view when none is marked, and the template's version as
\* activeVer.
C26_DefaultView ==
    [][IsCollectionCreated =>
        /\ RuleNewCollection.activeVer = RuleTemplateOf(RuleNewCollection).version
        /\ Len(RuleTemplateOf(RuleNewCollection).spec.views) > 0 =>
              /\ RuleNewCollection.settings.has
              /\ RuleNewCollection.settings.bag["activeView"] =
                    RuleDefaultView(RuleTemplateOf(RuleNewCollection).spec.views)]_vars

\* the id of the view marked default when it is a non-empty string, otherwise
\* the id of the first view when that is one, otherwise none ("")
RuleUsableDefault(views) ==
    IF Len(views) = 0 THEN ""
    ELSE IF RuleMarked(views) # {} /\ views[RuleFirstMarked(views)].id # ""
    THEN views[RuleFirstMarked(views)].id
    ELSE views[1].id

\* C26: a collection created from a template gets the template's version as
\* activeVer and, as settings.activeView, the id of the first view marked
\* default when that id is a non-empty string, otherwise the id of the first
\* view when that is a non-empty string; when there is neither (no view, or
\* no usable id) it is created without settings.
C26_UsableDefaultView ==
    [][IsCollectionCreated =>
        /\ RuleNewCollection.activeVer = RuleTemplateOf(RuleNewCollection).version
        /\ RuleNewCollection.settings.has =
              (RuleUsableDefault(RuleTemplateOf(RuleNewCollection).spec.views) # "")
        /\ RuleNewCollection.settings.has =>
              /\ DOMAIN RuleNewCollection.settings.bag = {"activeView"}
              /\ RuleNewCollection.settings.bag["activeView"] =
                    RuleUsableDefault(RuleTemplateOf(RuleNewCollection).spec.views)]_vars

\* a collection just created from the template whose second view is the one
\* marked default: its activeView is that view's id, its activeVer 2.0.0
C26_Witness ==
    /\ request.op = "POST /api/collections"
    /\ response.status = 201
    /\ Len(collections) = 1
    /\ RuleTemplateOf(collections[1]).spec = LateDefaultSpec
    /\ collections[1].settings = [has |-> TRUE, bag |-> [x \in {"activeView"} |-> "form"]]
    /\ collections[1].activeVer = "2.0.0"

\* the collection's activeView, when it has one, is the id of a view of its
\* template
RuleActiveViewExists(collection) ==
    (collection.settings.has /\ "activeView" \in DOMAIN collection.settings.bag) =>
        \E i \in 1..Len(RuleTemplateOf(collection).spec.views) :
            /\ RuleTemplateOf(collection).spec.views[i].id # ""
            /\ RuleTemplateOf(collection).spec.views[i].id =
                  collection.settings.bag["activeView"]

\* the request names a stored collection and, trimmed, no view of its template
RuleNamesNoView(body) ==
    /\ body.parsed
    /\ FindById(collections, body.id) # {}
    /\ TypeOf(body.activeView) = "string"
    /\ \A i \in 1..Len(SpecOfCollection(body.id).views) :
          ViewIdChars(SpecOfCollection(body.id).views[i].id) # Trim(body.activeView.v)

\* the settings of one collection changed, in the activeView key alone
RuleOnlyActiveViewChanged ==
    /\ Len(collections') = Len(collections)
    /\ \A i \in 1..Len(collections) :
          /\ [collections'[i] EXCEPT !.settings = collections[i].settings] = collections[i]
          /\ collections'[i].settings # collections[i].settings =>
                /\ collections'[i].settings.has
                /\ DOMAIN collections'[i].settings.bag =
                      {"activeView"} \cup
                      (IF collections[i].settings.has
                       THEN DOMAIN collections[i].settings.bag ELSE {})
                /\ \A x \in DOMAIN collections'[i].settings.bag \ {"activeView"} :
                      collections'[i].settings.bag[x] = collections[i].settings.bag[x]

-----------------------------------------------------------------------------
(* Calendar dates as the validator and the analytics runtime read them *)

\* one string, the time zone of the runtime and the ISO parser of the engine
InitDates ==
    /\ dString \in DateStrings \cup MalformedDates
    /\ tzOffset \in TzOffsets
    /\ isoLenient \in BOOLEAN
    /\ dParsed = NoDate
    /\ dValid = FALSE
    /\ dphase = "input"
    /\ schema = DateSchema
    /\ rawData = Undefined
    /\ vphase = "idle"
    /\ result = NoResult
    /\ firstCall = NoCall
    /\ tRecords = <<>>
    /\ timeFieldId = ""
    /\ tRange = NoRange
    /\ now = At(0)
    /\ tphase = "idle"
    /\ tResult = <<>>
    /\ MetricIdle
    /\ FilterIdle
    /\ GroupIdle
    /\ ServerIdle
    /\ patches = {}
    /\ saving = [f \in Forms |-> FALSE]
    /\ rendered = [f \in Forms |-> FALSE]
    /\ calls = [f \in Forms |-> <<>>]
    /\ created = [f \in Forms |-> 0]
    /\ formError = [f \in Forms |-> ""]
    /\ loading = TRUE
    /\ pageError = ""
    /\ pageCollection = ""
    /\ loads = <<>>

\* parseDate(s) and isValidISODateYYYYMMDD(s) on the same string
ReadDate ==
    /\ dphase = "input"
    /\ dParsed' = parseDate(dString)
    /\ dValid' = isValidISODateYYYYMMDD(dString)
    /\ dphase' = "read"
    /\ UNCHANGED <<dString, validatorVars, serverVars, analyticsVars, patches, formVars,
                   pageVars>>

NextDates == ReadDate

SpecDates == InitDates /\ [][NextDates]_vars

\* the year, month and day the string names
RuleNamed(s) ==
    [y |-> ParseDigits(SubSeq(s, 1, 4)),
     m |-> ParseDigits(SubSeq(s, 6, 7)),
     d |-> ParseDigits(SubSeq(s, 9, 10))]

\* C27: for a string of the form YYYY-MM-DD, parseDate returns a date exactly
\* when the validator's date check accepts the string, and the date it returns
\* is that year, month and day; a string such as 2026-02-30 does not parse.
C27_DatesAgree ==
    (dphase = "read" /\ MatchesYMD(dString)) =>
        /\ (dParsed.c = "at") = dValid
        /\ dParsed.c = "at" => LocalCivil(dParsed) = RuleNamed(dString)

-----------------------------------------------------------------------------
(* The create forms: handleCreateRecord and handleCreate *)

MaxCreated == 2
MaxNameLength == 100

My == <<"M", "y">>
LongName == [i \in 1..(MaxNameLength + 1) |-> "x"]

\* what a form holds when it is submitted: for the record form whether the
\* client-side checks find an error, for the collection form the name
FormInputs(f) ==
    IF f = "record" THEN {"complete", "incomplete"}
    ELSE {<<>>, <<" ">>, My, LongName}

\* the message of the checks made before the request, "" when they pass
ClientError(f, input) ==
    IF f = "record" THEN (IF input = "incomplete" THEN "validation" ELSE "")
    ELSE IF Len(Trim(input)) = 0 THEN "Name is required"
    ELSE IF Len(Trim(input)) > MaxNameLength THEN "Name must be 100 characters or fewer"
    ELSE ""

\* the requests of the form that have been sent and not answered
Outstanding(f) == {i \in 1..Len(calls[f]) : calls[f][i] = "posting"}

\* the same without the guard on saving
SubmitUnguarded(f, input) ==
    /\ created[f] < MaxCreated
    /\ Len(calls[f]) < MaxCreated
    /\ IF ClientError(f, input) # ""
       THEN /\ formError' = [formError EXCEPT ![f] = ClientError(f, input)]
            /\ UNCHANGED <<saving, rendered, calls, created>>
       ELSE /\ saving' = [saving EXCEPT ![f] = TRUE]
            /\ rendered' = [rendered EXCEPT ![f] = TRUE]
            /\ formError' = [formError EXCEPT ![f] = ""]
            /\ calls' = [calls EXCEPT ![f] = Append(@, "posting")]
            /\ UNCHANGED created
    /\ UNCHANGED <<validatorVars, serverVars, analyticsVars, patches, pageVars, dateVars>>

\* a submit event: the handler as far as its first await. The state it sets
\* is rendered before the next event is handled.
Submit(f, input) ==
    /\ created[f] < MaxCreated
    /\ IF rendered[f]
       THEN UNCHANGED formVars
       ELSE IF ClientError(f, input) # ""
       THEN /\ formError' = [formError EXCEPT ![f] = ClientError(f, input)]
            /\ UNCHANGED <<saving, rendered, calls, created>>
       ELSE /\ saving' = [saving EXCEPT ![f] = TRUE]
            /\ rendered' = [rendered EXCEPT ![f] = TRUE]
            /\ formError' = [formError EXCEPT ![f] = ""]
            /\ calls' = [calls EXCEPT ![f] = Append(@, "posting")]
            /\ UNCHANGED created
    /\ UNCHANGED <<validatorVars, serverVars, analyticsVars, patches, pageVars, dateVars>>

RemoveAt(s, i) == SubSeq(s, 1, i - 1) \o SubSeq(s, i + 1, Len(s))

\* the answer to a request arrives: 201, an error answer, or none (fetch
\* rejects). After a 201 the record form awaits loadCollection(); every other
\* path runs to finally { setSaving(false) }
Answer(f, i, status) ==
    /\ i \in Outstanding(f)
    /\ IF status = 201
       THEN /\ created' = [created EXCEPT ![f] = @ + 1]
            /\ UNCHANGED formError
            /\ IF f = "record"
               THEN /\ calls' = [calls EXCEPT ![f][i] = "reloading"]
                    /\ UNCHANGED saving
               ELSE /\ calls' = [calls EXCEPT ![f] = RemoveAt(@, i)]
                    /\ saving' = [saving EXCEPT ![f] = FALSE]
       ELSE /\ formError' = [formError EXCEPT ![f] =
                                 IF status = 400 THEN "rejected" ELSE "failed"]
            /\ calls' = [calls EXCEPT ![f] = RemoveAt(@, i)]
            /\ saving' = [saving EXCEPT ![f] = FALSE]
            /\ UNCHANGED created
    /\ UNCHANGED <<rendered, validatorVars, serverVars, analyticsVars, patches, pageVars,
                   dateVars>>

\* await loadCollection() returns in handleCreateRecord; finally runs
Reloaded(i) ==
    /\ i \in 1..Len(calls["record"])
    /\ calls["record"][i] = "reloading"
    /\ calls' = [calls EXCEPT !["record"] = RemoveAt(@, i)]
    /\ saving' = [saving EXCEPT !["record"] = FALSE]
    /\ UNCHANGED <<rendered, created, formError, validatorVars, serverVars, analyticsVars,
                   patches, pageVars, dateVars>>

\* React renders the form with the state set outside an event handler
Render(f) ==
    /\ rendered[f] # saving[f]
    /\ rendered' = [rendered EXCEPT ![f] = saving[f]]
    /\ UNCHANGED <<saving, calls, created, formError, validatorVars, serverVars,
                   analyticsVars, patches, pageVars, dateVars>>

NextForms ==
    \/ \E f \in Forms : \E input \in FormInputs(f) : Submit(f, input)
    \/ \E f \in Forms : \E i \in 1..MaxCreated : \E status \in {201, 400, 0} :
          Answer(f, i, status)
    \/ \E i \in 1..MaxCreated : Reloaded(i)
    \/ \E f \in Forms : Render(f)

SpecForms == Init /\ [][NextForms]_vars

\* C29: each create form has at most one create request outstanding, and no
\* more than one call of its handler past the guard: a submit while an earlier
\* submit's request is unanswered (or, in the record form, its reload is not
\* done) changes nothing and sends nothing.
C29_OneRequest ==
    /\ [](\A f \in Forms : Cardinality(Outstanding(f)) <= 1 /\ Len(calls[f]) <= 1)
    /\ [][\A f \in Forms :
            (calls[f] # <<>> /\ Len(calls'[f]) >= Len(calls[f])) =>
                (calls'[f] = calls[f] \/ (calls[f] = <<"posting">> /\ calls'[f] = <<"reloading">>))]_vars

\* the collection form has a request outstanding after the record form has
\* created a record and is reloading
C29_Witness ==
    /\ calls["collection"] = <<"posting">>
    /\ saving["collection"]
    /\ calls["record"] = <<"reloading">>
    /\ created["record"] = 1

-----------------------------------------------------------------------------
(* The collection page: loadCollection, its effect and the render guards *)

MaxLoads == 3

PageIds == {"c1", "c2"}

Load(id, status) == [id |-> id, status |-> status]

\* the loads whose fetches are neither answered nor aborted
PendingLoads == {i \in 1..Len(loads) : loads[i].status = "pending"}

AbortedLoads == {i \in 1..Len(loads) : loads[i].status = "aborted"}

\* controller.abort() of the effect's cleanup
Abort(ls) ==
    [i \in 1..Len(ls) |-> IF ls[i].status = "pending" THEN Load(ls[i].id, "aborted") ELSE ls[i]]

\* the effect runs (on mount, on the re-mount of StrictMode, or because
\* loadCollection changed with the id): the cleanup of the earlier run aborts
\* its load, and loadCollection(controller.signal) runs to its await
RunEffect(id) ==
    /\ Len(loads) < MaxLoads
    /\ loads' = Append(Abort(loads), Load(id, "pending"))
    /\ loading' = TRUE
    /\ pageError' = ""
    /\ UNCHANGED <<pageCollection, validatorVars, serverVars, analyticsVars, patches,
                   formVars, dateVars>>

\* the fetches of a load that was not aborted settle: both answers ok, an
\* error answer, or a rejected fetch
LoadSettles(i, outcome) ==
    /\ i \in PendingLoads
    /\ loads' = [loads EXCEPT ![i].status = "done"]
    /\ IF outcome = "ok"
       THEN pageCollection' = loads[i].id /\ UNCHANGED pageError
       ELSE pageError' = outcome /\ UNCHANGED pageCollection
    /\ loading' = FALSE
    /\ UNCHANGED <<validatorVars, serverVars, analyticsVars, patches, formVars, dateVars>>

\* an aborted load ends: its fetch rejects with AbortError (catch returns,
\* finally runs), or the answers had arrived before the abort and the call
\* ends as a load that was not aborted
AbortedLoadEnds(i, arrived) ==
    /\ i \in AbortedLoads
    /\ loads' = [loads EXCEPT ![i].status = "done"]
    /\ IF arrived
       THEN pageCollection' = loads[i].id
       ELSE UNCHANGED pageCollection
    /\ loading' = FALSE
    /\ UNCHANGED <<pageError, validatorVars, serverVars, analyticsVars, patches, formVars,
                   dateVars>>

\* what the render guards show
Shown ==
    IF loading THEN "Loading collection..."
    ELSE IF pageCollection = ""
         THEN (IF pageError # "" THEN pageError ELSE "Collection not found.")
         ELSE "collection"

NextPage ==
    \/ \E id \in PageIds : RunEffect(id)
    \/ \E i \in 1..MaxLoads :
          \E outcome \in {"ok", "Collection not found", "Load failed"} : LoadSettles(i, outcome)
    \/ \E i \in 1..MaxLoads : \E arrived \in BOOLEAN : AbortedLoadEnds(i, arrived)

SpecPage == Init /\ [][NextPage]_vars

\* C30: while a load of the collection is in flight the loading flag is true
\* and the page does not show "Collection not found."; the end of an aborted
\* load changes neither the flag nor the error while a newer load is pending.
C30_LoadingWhilePending ==
    /\ [](PendingLoads # {} => loading /\ Shown # "Collection not found.")
    /\ [][PendingLoads # {} /\ PendingLoads' = PendingLoads =>
            loading' = loading /\ pageError' = pageError]_vars

====
